---- MODULE Spec2Model ----
(***************************************************************************)
(* A model of the lox-rust tree-walking interpreter: the environment       *)
(* chain, the callable objects, the resolver and the statement/expression  *)
(* evaluator.  Each visit_* method of the source is one operator here; the *)
(* operators thread the interpreter's state `st` and return the pair       *)
(* [st, res] where res stands for the Rust Result.                         *)
(***************************************************************************)
EXTENDS Integers, Sequences, FiniteSets, TLC

VARIABLES
    source,       \* the parsed program handed to Lox::run (Vec<Stmt>)
    pc,           \* position of the driver: "start", "done", "initialized"
    resolution,   \* the resolver's walk: "none" yet, "passed" or "rejected"
    envs,         \* the heap of Environment objects, addressed by Rc handle
    environment,  \* Interpreter.environment
    locals,       \* Interpreter.locals
    out,          \* the lines written by println!
    instances,    \* the heap of LoxInstance objects, addressed by Rc handle
    trace,        \* the order in which execute/evaluate visited the program
    result        \* the Result returned by the last interpret / call

vars ==
    <<source, pc, resolution, envs, environment, locals, out, instances, trace, result>>

----------------------------------------------------------------------------
(* Bounds of the model *)

\* condition checks one activation of a loop may reach before it is cut off
MaxTrips == 3
\* nesting depth of the generated statements
MaxDepth == 2
\* number of instances an initializer may be bound to
MaxInstances == 2
\* calls a program makes of the closures that share a variable
MaxShared == 3

----------------------------------------------------------------------------
(* token.rs: Value *)

Nil == [t |-> "Nil"]
Number(n) == [t |-> "Number", n |-> n]
Bool(b) == [t |-> "Bool", b |-> b]
String(s) == [t |-> "String", s |-> s]
Callable(f) == [t |-> "Callable", f |-> f]
\* Value::Instance(Rc<RefCell<LoxInstance>>), by the handle of the instance
Instance(rc) == [t |-> "Instance", rc |-> rc]
Class(c) == [t |-> "Class", c |-> c]

\* Option<T>
None == [type |-> "None"]
IsSome(o) == o.type # "None"

\* Option<Rc<Environment>>::None
NoEnv == 0

(* error.rs *)
Ok(v) == [ok |-> TRUE, value |-> v]
Err(e) == [ok |-> FALSE, err |-> e]
RuntimeError(type_, lexeme, message) ==
    [variant |-> "RuntimeError", token |-> [type_ |-> type_, lexeme |-> lexeme],
     message |-> message]
ReturnError(value) == [variant |-> "ReturnError", value |-> value]

\* The run never comes back to the caller: an unbounded loop or recursion cut
\* off by MaxTrips, or a Rust panic.  No code of the caller runs after it.
Halt(why) == [variant |-> "Halt", why |-> why]
IsHalt(res) == ~res.ok /\ res.err.variant = "Halt"

Ret(st, res) == [st |-> st, res |-> res]

\* what a Result looks like from outside
Kind(res) ==
    IF res.ok THEN "Ok"
    ELSE IF res.err.variant = "RuntimeError" THEN res.err.token.type_
    ELSE res.err.variant

\* what a Result carries besides its kind: the value or the error's message
Carried(res) ==
    CASE res.ok -> res.value
      [] res.err.variant = "ReturnError" -> res.err.value.value
      [] res.err.variant = "RuntimeError" -> String(res.err.message)
      [] OTHER -> Nil

Log(st, ev) == [st EXCEPT !.trace = Append(@, ev)]

\* RuntimeError::new at the place an error is created
Raise(st, err) == Ret(Log(st, [e |-> "raise", kind |-> Kind(Err(err))]), Err(err))
Lift(st, res) == IF res.ok THEN Ret(st, res) ELSE Raise(st, res.err)

----------------------------------------------------------------------------
(* environment.rs *)

Environment_new(heap, enclosing) ==
    [envs |-> Append(heap, [values |-> <<>>, enclosing |-> enclosing]),
     rc |-> Len(heap) + 1]

insert(map, name, value) ==
    [k \in DOMAIN map \cup {name} |-> IF k = name THEN value ELSE map[k]]

RECURSIVE Environment_put(_, _, _, _)
\* define as it would be if a binding of an enclosing frame were assigned
Environment_define_outward(heap, self, name, value) ==
    LET p == Environment_put(heap, self, name, value)
    IN IF p.res.ok THEN p.envs ELSE [heap EXCEPT ![self].values = insert(@, name, value)]

Environment_define(heap, self, name, value) ==
    [heap EXCEPT ![self].values = insert(@, name, value)]

\* put as it would be if a name bound nowhere were defined in the root frame
Environment_put_creating(heap, self, name, value) ==
    CASE name \in DOMAIN heap[self].values ->
            [envs |-> [heap EXCEPT ![self].values = insert(@, name, value)],
             res |-> Ok(Nil)]
      [] heap[self].enclosing # NoEnv ->
            Environment_put(heap, heap[self].enclosing, name, value)
      [] OTHER ->
            [envs |-> [heap EXCEPT ![self].values = insert(@, name, value)],
             res |-> Ok(Nil)]

Environment_put(heap, self, name, value) ==
    CASE name \in DOMAIN heap[self].values ->
            [envs |-> [heap EXCEPT ![self].values = insert(@, name, value)],
             res |-> Ok(Nil)]
      [] heap[self].enclosing # NoEnv ->
            Environment_put(heap, heap[self].enclosing, name, value)
      [] OTHER ->
            [envs |-> heap,
             res |-> Err(RuntimeError("IDENTIFIER", name, "Undefined variable"))]

RECURSIVE Environment_get(_, _, _)
Environment_get(heap, self, name) ==
    CASE name \in DOMAIN heap[self].values -> Ok(heap[self].values[name])
      [] heap[self].enclosing # NoEnv ->
            Environment_get(heap, heap[self].enclosing, name)
      [] OTHER -> Err(RuntimeError("IDENTIFIER", name, "Undefined variable"))

\* the loop of Environment::ancestor on its local `environment` (env): a link is
\* followed if there is one
RECURSIVE Environment_ancestor(_, _, _)
Environment_ancestor(heap, env, distance) ==
    IF distance = 0 \/ heap[env].enclosing = NoEnv THEN env
    ELSE Environment_ancestor(heap, heap[env].enclosing, distance - 1)

\* Environment::get_at.  ancestor starts from Rc::new(self.clone()): a copy of
\* self behind an Rc of its own, dropped when the call returns.
Environment_get_at(heap, self, distance, name) ==
    LET copied == Append(heap, heap[self])
    IN Environment_get(copied, Environment_ancestor(copied, Len(copied), distance), name)

\* Environment::assign_at
Environment_assign_at(heap, self, distance, name, value) ==
    LET copied == Append(heap, heap[self])
        p == Environment_put(copied, Environment_ancestor(copied, Len(copied), distance),
                             name, value)
    IN [envs |-> SubSeq(p.envs, 1, Len(heap)), res |-> p.res]

----------------------------------------------------------------------------
(* callable.rs *)

NativeFunction(name, arity) == [kind |-> "NativeFunction", name |-> name, arity |-> arity]
LoxFunction_new(name, params, body, closure, is_initializer) ==
    [kind |-> "LoxFunction", name |-> name, params |-> params, body |-> body,
     closure |-> closure, is_initializer |-> is_initializer]

\* LoxFunction::bind: the function with `this` in a scope around its closure
LoxFunction_bind(heap, self, instance) ==
    LET env == Environment_new(heap, self.closure) IN
    [envs |-> Environment_define(env.envs, env.rc, "this", Instance(instance)),
     function |-> LoxFunction_new(self.name, self.params, self.body, env.rc,
                                  self.is_initializer)]

\* LoxClass::new; methods maps a method's name to its LoxFunction
LoxClass_new(name, methods) == [name |-> name, methods |-> methods]

\* LoxInstance::new behind a new Rc, as LoxClass::call makes it
LoxInstance_new(heap, class) ==
    [instances |-> Append(heap, [class |-> class, fields |-> <<>>]),
     rc |-> Len(heap) + 1]

\* LoxInstance::get.  A method is bound to Rc::new(RefCell::new(self.clone())),
\* an instance of its own that starts as a copy of self.
LoxInstance_get(heap, environments, self, name) ==
    LET copy == Append(heap, heap[self])
        bound == LoxFunction_bind(environments, heap[self].class.methods[name],
                                  Len(heap) + 1)
    IN CASE name \in DOMAIN heap[self].fields ->
                [instances |-> heap, envs |-> environments,
                 res |-> Ok(heap[self].fields[name])]
         [] name \in DOMAIN heap[self].class.methods ->
                [instances |-> copy, envs |-> bound.envs,
                 res |-> Ok(Callable(bound.function))]
         [] OTHER ->
                [instances |-> heap, envs |-> environments,
                 res |-> Err(RuntimeError("IDENTIFIER", name, "Undefined property"))]

\* LoxInstance::set
LoxInstance_set(heap, self, name, value) ==
    [heap EXCEPT ![self].fields = insert(@, name, value)]

create_clock_function == NativeFunction("clock", 0)

\* SystemTime::now() read by native_clock, in seconds
EpochSeconds == 0
native_clock(args) == Ok(Number(EpochSeconds))

\* arity as it would be if every callable took no parameter
LoxCallable_arity_zero(f) == 0

LoxCallable_arity(f) ==
    IF f.kind = "NativeFunction" THEN f.arity ELSE Len(f.params)

----------------------------------------------------------------------------
(* interpreter.rs: helpers *)

Interpreter_new ==
    LET root == Environment_new(<<>>, NoEnv) IN
    [envs |-> Environment_define(root.envs, root.rc, "clock",
                                 Callable(create_clock_function)),
     environment |-> root.rc,
     locals |-> <<>>]

stringify(value) ==
    CASE value.t = "Nil" -> "nil"
      [] value.t = "Number" -> ToString(value.n)
      [] value.t = "Bool" -> IF value.b THEN "true" ELSE "false"
      [] value.t = "String" -> value.s
      [] value.t = "Callable" -> "<fn " \o value.f.name \o ">"
      [] value.t = "Class" -> "<class " \o value.c.name \o ">"
      [] OTHER -> "<instance>"

is_truthy(value) ==
    CASE value.t = "Nil" -> FALSE
      [] value.t = "Bool" -> value.b
      [] OTHER -> TRUE

is_equal(left, right) ==
    IF left.t # right.t THEN FALSE
    ELSE CASE left.t = "Nil" -> TRUE
           [] left.t = "Number" -> left.n = right.n
           [] left.t = "Bool" -> left.b = right.b
           [] left.t = "String" -> left.s = right.s
           [] left.t = "Callable" ->
                /\ left.f.kind = "NativeFunction"
                /\ right.f.kind = "NativeFunction"
                /\ left.f.name = right.f.name
           [] left.t = "Class" -> left.c.name = right.c.name
           [] OTHER -> FALSE

\* Interpreter::ancestor: NoEnv stands for the unwrap() of a missing link
RECURSIVE Interpreter_ancestor(_, _, _)
Interpreter_ancestor(heap, env, distance) ==
    IF distance = 0 THEN env
    ELSE IF heap[env].enclosing = NoEnv THEN NoEnv
    ELSE Interpreter_ancestor(heap, heap[env].enclosing, distance - 1)

Interpreter_get_at(st, distance, name) ==
    LET env == Interpreter_ancestor(st.envs, st.environment, distance) IN
    IF env = NoEnv THEN Ret(st, Err(Halt("panic")))
    ELSE Lift(st, Environment_get(st.envs, env, name))

Interpreter_assign_at(st, distance, name, value) ==
    LET env == Interpreter_ancestor(st.envs, st.environment, distance) IN
    IF env = NoEnv THEN Ret(st, Err(Halt("panic")))
    ELSE LET p == Environment_put(st.envs, env, name.lexeme, value) IN
         Lift([st EXCEPT !.envs = p.envs], p.res)

\* the read or assignment of a variable by the interpreter `st`, and its Result
Accessed(st, kind, expr, r) ==
    [r EXCEPT !.st.trace =
        Append(@, [e |-> kind, node |-> expr, name |-> expr.name.lexeme,
                   resolved |-> expr \in DOMAIN st.locals,
                   distance |-> IF expr \in DOMAIN st.locals THEN st.locals[expr] ELSE 0,
                   environment |-> st.environment, before |-> st.envs,
                   after |-> r.st.envs, res |-> Kind(r.res), value |-> Carried(r.res)])]

look_up_variable(st, name, expr) ==
    Accessed(st, "read", expr,
             IF expr \in DOMAIN st.locals
             THEN Interpreter_get_at(st, st.locals[expr], name)
             ELSE Lift(st, Environment_get(st.envs, st.environment, name)))

----------------------------------------------------------------------------
(* interpreter.rs: ExprVisitor *)

RECURSIVE Evaluate(_, _)
RECURSIVE Execute(_, _)
RECURSIVE execute_block(_, _, _)

visit_literal_expr(st, expr) == Ret(st, Ok(expr.value))

visit_grouping_expr(st, expr) == Evaluate(st, expr.expression)

visit_unary_expr(st, expr) ==
    LET apply(right) ==
            CASE ~right.res.ok -> right
              [] expr.operator = "MINUS" /\ right.res.value.t = "Number" ->
                    Ret(right.st, Ok(Number(0 - right.res.value.n)))
              [] expr.operator = "MINUS" ->
                    Raise(right.st, RuntimeError("MINUS", "-", "Operand must be a number."))
              [] expr.operator = "BANG" ->
                    Ret(right.st, Ok(Bool(~is_truthy(right.res.value))))
              [] OTHER ->
                    Raise(right.st, RuntimeError(expr.operator, "", "Unknown unary operator"))
    IN apply(Evaluate(st, expr.right))

\* the match on expr.operator.type_ of visit_binary_expr, applied to two values.
\* Numbers are the integers; `/` is taken on operands whose quotient is whole.
\* the arithmetic operators as they would be if `+` took no mixed operands
binary_op_unmixed(operator, l, r) ==
    CASE l.t = "Number" /\ r.t = "Number" /\ (operator # "SLASH" \/ r.n # 0) ->
            Ok(Number(CASE operator = "PLUS" -> l.n + r.n
                        [] operator = "MINUS" -> l.n - r.n
                        [] operator = "STAR" -> l.n * r.n
                        [] OTHER -> l.n \div r.n))
      [] operator = "PLUS" /\ l.t = "String" /\ r.t = "String" -> Ok(String(l.s \o r.s))
      [] OTHER -> Err(RuntimeError(operator, "", "Operands must be numbers."))

binary_op(operator, l, r) ==
    LET both == l.t = "Number" /\ r.t = "Number"
        numbers == Err(RuntimeError(operator, "", "Operands must be numbers."))
    IN
    CASE operator = "MINUS" -> IF both THEN Ok(Number(l.n - r.n)) ELSE numbers
      [] operator = "SLASH" ->
            IF both
            THEN IF r.n = 0
                 THEN Err(RuntimeError(operator, "", "Division by zero."))
                 ELSE Ok(Number(l.n \div r.n))
            ELSE numbers
      [] operator = "STAR" -> IF both THEN Ok(Number(l.n * r.n)) ELSE numbers
      [] operator = "PLUS" ->
            CASE both -> Ok(Number(l.n + r.n))
              [] l.t = "String" /\ r.t = "String" -> Ok(String(l.s \o r.s))
              [] l.t = "String" /\ r.t = "Number" -> Ok(String(l.s \o ToString(r.n)))
              [] l.t = "Number" /\ r.t = "String" -> Ok(String(ToString(l.n) \o r.s))
              [] OTHER -> Err(RuntimeError(operator, "",
                                  "Operands must be two numbers or two strings."))
      [] operator = "GREATER" -> IF both THEN Ok(Bool(l.n > r.n)) ELSE numbers
      [] operator = "GREATER_EQUAL" -> IF both THEN Ok(Bool(l.n >= r.n)) ELSE numbers
      [] operator = "LESS" -> IF both THEN Ok(Bool(l.n < r.n)) ELSE numbers
      [] operator = "LESS_EQUAL" -> IF both THEN Ok(Bool(l.n <= r.n)) ELSE numbers
      [] operator = "BANG_EQUAL" -> Ok(Bool(~is_equal(l, r)))
      [] operator = "EQUAL_EQUAL" -> Ok(Bool(is_equal(l, r)))
      [] OTHER -> Err(RuntimeError(operator, "", "Unknown binary operator"))

\* visit_binary_expr as it would be if a division by zero yielded a number
visit_binary_expr_unchecked(st, expr) ==
    LET with_right(left, right) ==
            CASE ~right.res.ok -> right
              [] /\ expr.operator = "SLASH" /\ left.res.value.t = "Number"
                 /\ right.res.value = Number(0) -> Ret(right.st, Ok(Number(0)))
              [] OTHER -> Lift(right.st, binary_op(expr.operator, left.res.value,
                                                   right.res.value))
        with_left(left) ==
            CASE ~left.res.ok -> left
              [] OTHER -> with_right(left, Evaluate(left.st, expr.right))
    IN with_left(Evaluate(st, expr.left))

visit_binary_expr(st, expr) ==
    LET with_right(left, right) ==
            CASE ~right.res.ok -> right
              [] OTHER -> Lift(right.st, binary_op(expr.operator, left.res.value,
                                                   right.res.value))
        with_left(left) ==
            CASE ~left.res.ok -> left
              [] OTHER -> with_right(left, Evaluate(left.st, expr.right))
    IN with_left(Evaluate(st, expr.left))

visit_variable_expr(st, expr) == look_up_variable(st, expr.name.lexeme, expr)

visit_assignment_expr(st, expr) ==
    LET stored(value, r) == IF ~r.res.ok THEN r ELSE Ret(r.st, Ok(value.res.value))
        put(s, p) == Lift([s EXCEPT !.envs = p.envs], p.res)
        assign_(value) ==
            CASE expr \in DOMAIN value.st.locals ->
                    stored(value, Interpreter_assign_at(value.st, value.st.locals[expr],
                                                        expr.name, value.res.value))
              [] OTHER ->
                    stored(value,
                           put(value.st,
                               Environment_put(value.st.envs, value.st.environment,
                                               expr.name.lexeme, value.res.value)))
        assign(value) ==
            CASE ~value.res.ok -> value
              [] OTHER -> Accessed(value.st, "assign", expr, assign_(value))
    IN assign(Evaluate(st, expr.value))

\* visit_or_expr as it would be if the right operand were evaluated first
visit_or_expr_eager(st, expr) ==
    LET with_left(right, left) ==
            CASE ~left.res.ok -> left
              [] is_truthy(left.res.value) -> left
              [] OTHER -> Ret(left.st, right.res)
        with_right(right) ==
            CASE ~right.res.ok -> right
              [] OTHER -> with_left(right, Evaluate(right.st, expr.left))
    IN with_right(Evaluate(st, expr.right))

visit_or_expr(st, expr) ==
    LET with_left(left) ==
            CASE ~left.res.ok -> left
              [] is_truthy(left.res.value) -> left
              [] OTHER -> Evaluate(left.st, expr.right)
    IN with_left(Evaluate(st, expr.left))

visit_and_expr(st, expr) ==
    LET with_left(left) ==
            CASE ~left.res.ok -> left
              [] ~is_truthy(left.res.value) -> left
              [] OTHER -> Evaluate(left.st, expr.right)
    IN with_left(Evaluate(st, expr.left))

\* the parameters zipped with the arguments, a later duplicate overwriting
zip_params(params, arguments) ==
    LET n == IF Len(params) < Len(arguments) THEN Len(params) ELSE Len(arguments) IN
    [k \in {params[i] : i \in 1..n} |->
        arguments[CHOOSE i \in 1..n :
                    /\ params[i] = k
                    /\ \A j \in 1..n : params[j] = k => j <= i]]

\* LoxFunction::call as it would be if a return ended the body and its value
\* were dropped
LoxFunction_call_dropping(st, self, arguments) ==
    LET env == Environment_new(st.envs, self.closure)
        bound == zip_params(self.params, arguments)
        returned(r) ==
            CASE r.res.ok -> Ret(r.st, Ok(Nil))
              [] r.res.err.variant # "ReturnError" -> r
              [] OTHER -> Ret(r.st, Ok(Nil))
    IN returned(execute_block(
            Log([st EXCEPT !.envs = [env.envs EXCEPT ![env.rc].values = bound]],
                [e |-> "call_enter", name |-> self.name, closure |-> self.closure,
                 env |-> env.rc, values |-> bound, caller |-> st.environment,
                 is_initializer |-> self.is_initializer]),
            self.body, env.rc))

\* LoxFunction::call; `st` is the interpreter handed in (the caller's clone)
LoxFunction_call(st, self, arguments) ==
    LET env == Environment_new(st.envs, self.closure)
        bound == zip_params(self.params, arguments)
        returned(r) ==
            CASE r.res.ok -> Ret(r.st, Ok(Nil))
              [] r.res.err.variant # "ReturnError" -> r
              [] ~IsSome(r.res.err.value) -> Ret(r.st, Ok(Nil))
              [] self.is_initializer ->
                    Lift(r.st, Environment_get(r.st.envs, self.closure, "this"))
              [] OTHER -> Ret(r.st, Ok(r.res.err.value.value))
    IN returned(execute_block(
            Log([st EXCEPT !.envs = [env.envs EXCEPT ![env.rc].values = bound]],
                [e |-> "call_enter", name |-> self.name, closure |-> self.closure,
                 env |-> env.rc, values |-> bound, caller |-> st.environment,
                 is_initializer |-> self.is_initializer]),
            self.body, env.rc))

LoxCallable_call(st, function, arguments) ==
    IF function.kind = "NativeFunction"
    THEN Ret(st, native_clock(arguments))
    ELSE LoxFunction_call(st, function, arguments)

\* the loop over expr.arguments of visit_call_expr
RECURSIVE evaluate_arguments(_, _, _, _)
evaluate_arguments(st, arguments, i, acc) ==
    LET push(a) ==
            CASE ~a.res.ok -> a
              [] OTHER -> evaluate_arguments(a.st, arguments, i + 1,
                                             Append(acc, a.res.value))
    IN CASE i > Len(arguments) -> Ret(st, Ok(acc))
         [] OTHER -> push(Evaluate(st, arguments[i]))

visit_call_expr(st, expr) ==
    LET \* the callee worked on self.clone(): the caller's fields are as they were
        exit(at, r) ==
            [r EXCEPT !.st = Log([@ EXCEPT !.environment = at.environment,
                                           !.locals = at.locals],
                                 [e |-> "call_exit", res |-> Kind(r.res),
                                  value |-> Carried(r.res), envs |-> r.st.envs,
                                  environment |-> at.environment])]
        dispatch(at, callee, arguments) ==
            CASE callee.t # "Callable" ->
                    Raise(at, RuntimeError("RIGHT_PAREN", ")",
                                           "Can only call functions and classes."))
              [] Len(arguments) # LoxCallable_arity(callee.f) ->
                    Raise(at, RuntimeError("RIGHT_PAREN", ")", "Expected n arguments"))
              [] OTHER -> LoxCallable_call(at, callee.f, arguments)
        with_arguments(callee, args) ==
            CASE ~args.res.ok -> args
              [] OTHER ->
                    exit(args.st,
                         dispatch(Log(args.st, [e |-> "call", callee |-> callee.res.value,
                                                arguments |-> args.res.value,
                                                envs |-> args.st.envs,
                                                environment |-> args.st.environment]),
                                  callee.res.value, args.res.value))
        with_callee(callee) ==
            CASE ~callee.res.ok -> callee
              [] OTHER -> with_arguments(callee, evaluate_arguments(callee.st,
                                                     expr.arguments, 1, <<>>))
    IN with_callee(Evaluate(st, expr.callee))

----------------------------------------------------------------------------
(* interpreter.rs: StmtVisitor *)

\* `Ok(Value::Nil)` where the `?` before it let the result through
OkNil(r) == [r EXCEPT !.res = IF @.ok THEN Ok(Nil) ELSE @]

\* the Result of the evaluation is dropped: `self.evaluate(..); Ok(Value::Nil)`
visit_expression_stmt(st, stmt) ==
    LET discard(r) == [r EXCEPT !.res = IF IsHalt(@) THEN @ ELSE Ok(Nil)]
    IN discard(Evaluate(st, stmt.expression))

visit_print_stmt(st, stmt) ==
    LET println(value) ==
            [value EXCEPT !.st.out = IF value.res.ok
                                     THEN Append(@, stringify(value.res.value))
                                     ELSE @,
                          !.res = IF @.ok THEN Ok(Nil) ELSE @]
    IN println(Evaluate(st, stmt.expression))

visit_var_decl(st, var_decl) ==
    LET defined(value, after) ==
            Ret(Log([value.st EXCEPT !.envs = after],
                    [e |-> "define", self |-> value.st.environment,
                     name |-> var_decl.name.lexeme, value |-> value.res.value,
                     before |-> value.st.envs, after |-> after]),
                value.res)
        define_(value) ==
            IF value.res.ok
            THEN defined(value, Environment_define(value.st.envs, value.st.environment,
                                                   var_decl.name.lexeme, value.res.value))
            ELSE value
    IN CASE IsSome(var_decl.initializer) -> define_(Evaluate(st, var_decl.initializer))
         [] OTHER -> define_(Ret(st, Ok(Nil)))

visit_block_stmt(st, block) ==
    OkNil(execute_block([st EXCEPT !.envs = Environment_new(@, st.environment).envs],
                        block.statements,
                        Environment_new(st.envs, st.environment).rc))

visit_if_stmt(st, if_stmt) ==
    LET branch(condition) ==
            CASE ~condition.res.ok -> condition
              [] is_truthy(condition.res.value) ->
                    OkNil(Execute(condition.st, if_stmt.then_branch))
              [] IsSome(if_stmt.else_branch) ->
                    OkNil(Execute(condition.st, if_stmt.else_branch))
              [] OTHER -> Ret(condition.st, Ok(Nil))
    IN branch(Evaluate(st, if_stmt.condition))

\* the Result of a loop's body as the loop gets it back
Body(res, loop, increment) ==
    [res EXCEPT !.st.trace = Append(@, [e |-> "body", loop |-> loop,
                                        increment |-> increment,
                                        res |-> Kind(res.res),
                                        value |-> Carried(res.res)])]

\* the `while` of visit_while_stmt from its trip-th condition check on, `body`
\* being the Result of the body in the trip before
RECURSIVE visit_while_stmt_loop(_, _, _)
\* the loop as it would be if every failure of the body ended it like a break
visit_while_stmt_loop_ending(body, while_stmt, trip) ==
    LET after_condition(condition) ==
            CASE ~condition.res.ok -> condition
              [] ~is_truthy(condition.res.value) -> Ret(condition.st, Ok(Nil))
              [] OTHER ->
                    visit_while_stmt_loop(
                        Body(Execute(condition.st, while_stmt.body), "while", FALSE),
                        while_stmt, trip + 1)
    IN CASE Kind(body.res) \notin {"Ok", "CONTINUE"} -> Ret(body.st, Ok(Nil))
         [] trip > MaxTrips -> Ret(body.st, Err(Halt("trips")))
         [] OTHER -> after_condition(Evaluate(Log(body.st, [e |-> "cond", loop |-> "while"]),
                                              while_stmt.condition))

visit_while_stmt_loop(body, while_stmt, trip) ==
    LET after_condition(condition) ==
            CASE ~condition.res.ok -> condition
              [] ~is_truthy(condition.res.value) -> Ret(condition.st, Ok(Nil))
              [] OTHER ->
                    visit_while_stmt_loop(
                        Body(Execute(condition.st, while_stmt.body), "while", FALSE),
                        while_stmt, trip + 1)
    IN CASE Kind(body.res) = "BREAK" -> Ret(body.st, Ok(Nil))
         [] Kind(body.res) \notin {"Ok", "CONTINUE"} -> body
         [] trip > MaxTrips -> Ret(body.st, Err(Halt("trips")))
         [] OTHER -> after_condition(Evaluate(Log(body.st, [e |-> "cond", loop |-> "while"]),
                                              while_stmt.condition))

visit_while_stmt(st, while_stmt) ==
    visit_while_stmt_loop(Ret(st, Ok(Nil)), while_stmt, 1)

\* the `loop { ... }` of visit_for_stmt from its trip-th condition check on,
\* `step` being the Result of what ran last: initializer, increment or body
RECURSIVE visit_for_stmt_loop(_, _, _)
\* the loop as it would be if every iteration ran in a fresh copy of the loop
\* environment
visit_for_stmt_loop_fresh(step, for_stmt, trip) ==
    LET after_body(res) ==
            CASE res.res.ok /\ IsSome(for_stmt.increment) ->
                    visit_for_stmt_loop(
                        Evaluate(Log(res.st, [e |-> "increment", loop |-> "for"]),
                                 for_stmt.increment),
                        for_stmt, trip + 1)
              [] res.res.ok -> visit_for_stmt_loop(res, for_stmt, trip + 1)
              [] Kind(res.res) = "BREAK" -> Ret(res.st, Ok(Nil))
              [] Kind(res.res) = "CONTINUE" ->
                    visit_for_stmt_loop(Ret(res.st, Ok(Nil)), for_stmt, trip + 1)
              [] OTHER -> res
        fresh(s) == [s EXCEPT !.envs = Append(@, @[s.environment]),
                              !.environment = Len(s.envs) + 1]
        body(s) == after_body(Body(Execute(fresh(s), for_stmt.body), "for",
                                   IsSome(for_stmt.increment)))
        after_condition(condition) ==
            CASE ~condition.res.ok -> condition
              [] ~is_truthy(condition.res.value) -> Ret(condition.st, Ok(Nil))
              [] OTHER -> body(condition.st)
    IN CASE ~step.res.ok -> step
         [] trip > MaxTrips -> Ret(step.st, Err(Halt("trips")))
         [] IsSome(for_stmt.condition) ->
                after_condition(Evaluate(Log(step.st, [e |-> "cond", loop |-> "for"]),
                                         for_stmt.condition))
         [] OTHER -> body(step.st)

visit_for_stmt_loop(step, for_stmt, trip) ==
    LET after_body(res) ==
            CASE res.res.ok /\ IsSome(for_stmt.increment) ->
                    visit_for_stmt_loop(
                        Evaluate(Log(res.st, [e |-> "increment", loop |-> "for"]),
                                 for_stmt.increment),
                        for_stmt, trip + 1)
              [] res.res.ok -> visit_for_stmt_loop(res, for_stmt, trip + 1)
              [] Kind(res.res) = "BREAK" -> Ret(res.st, Ok(Nil))
              [] Kind(res.res) = "CONTINUE" ->
                    visit_for_stmt_loop(Ret(res.st, Ok(Nil)), for_stmt, trip + 1)
              [] OTHER -> res
        body(s) == after_body(Body(Execute(s, for_stmt.body), "for",
                                   IsSome(for_stmt.increment)))
        after_condition(condition) ==
            CASE ~condition.res.ok -> condition
              [] ~is_truthy(condition.res.value) -> Ret(condition.st, Ok(Nil))
              [] OTHER -> body(condition.st)
    IN CASE ~step.res.ok -> step
         [] trip > MaxTrips -> Ret(step.st, Err(Halt("trips")))
         [] IsSome(for_stmt.condition) ->
                after_condition(Evaluate(Log(step.st, [e |-> "cond", loop |-> "for"]),
                                         for_stmt.condition))
         [] OTHER -> body(step.st)

visit_for_stmt(st, for_stmt) ==
    LET loop_env == Environment_new(st.envs, st.environment)
        entered == [st EXCEPT !.envs = loop_env.envs, !.environment = loop_env.rc]
        initializer ==
            CASE IsSome(for_stmt.initializer) -> Execute(entered, for_stmt.initializer)
              [] OTHER -> Ret(entered, Ok(Nil))
    IN [visit_for_stmt_loop(initializer, for_stmt, 1)
            EXCEPT !.st.environment = st.environment]

visit_break_stmt(st, break_stmt) ==
    Raise(st, RuntimeError("BREAK", "break", "Break statement encountered."))

visit_continue_stmt(st, continue_stmt) ==
    Raise(st, RuntimeError("CONTINUE", "continue", "Continue statement encountered."))

\* visit_function_stmt as it would be if the closure were a copy of the
\* current environment
visit_function_stmt_copying(st, function_stmt) ==
    LET func_name == function_stmt.name.lexeme
        params == [i \in 1..Len(function_stmt.params) |-> function_stmt.params[i].lexeme]
        copied == Append(st.envs, st.envs[st.environment])
        lox_function == LoxFunction_new(func_name, params, function_stmt.body,
                                        Len(copied), FALSE)
    IN Ret(Log([st EXCEPT !.envs = Environment_define(copied, st.environment, func_name,
                                                      Callable(lox_function))],
               [e |-> "fun", name |-> func_name, params |-> params,
                closure |-> Len(copied)]),
           Ok(Nil))

visit_function_stmt(st, function_stmt) ==
    LET func_name == function_stmt.name.lexeme
        params == [i \in 1..Len(function_stmt.params) |-> function_stmt.params[i].lexeme]
        lox_function == LoxFunction_new(func_name, params, function_stmt.body,
                                        st.environment, FALSE)
    IN Ret(Log([st EXCEPT !.envs = Environment_define(@, st.environment, func_name,
                                                      Callable(lox_function))],
               [e |-> "fun", name |-> func_name, params |-> params,
                closure |-> st.environment]),
           Ok(Nil))

\* the class declaration: the name is declared as nil, every method becomes a
\* closure over the declaring environment, the one named init is tagged the
\* initializer, and the name is rebound to the finished class
visit_class_decl(st, class_decl) ==
    LET name == class_decl.name.lexeme
        named(n) == {i \in DOMAIN class_decl.methods : class_decl.methods[i].name.lexeme = n}
        method(m) ==
            LoxFunction_new(m.name.lexeme, [i \in 1..Len(m.params) |-> m.params[i].lexeme],
                            m.body, st.environment, m.name.lexeme = "init")
        methods ==
            [n \in {class_decl.methods[i].name.lexeme : i \in DOMAIN class_decl.methods} |->
                method(class_decl.methods[CHOOSE i \in named(n) : \A j \in named(n) : j <= i])]
        declared == Environment_define(st.envs, st.environment, name, Nil)
    IN Ret([st EXCEPT !.envs = Environment_define(declared, st.environment, name,
                                                  Class(LoxClass_new(name, methods)))],
           Ok(Nil))

visit_return_stmt(st, return_stmt) ==
    LET unwind(value) ==
            CASE ~value.res.ok -> value
              [] OTHER ->
                    [res |-> Err(ReturnError([type |-> "Some", value |-> value.res.value])),
                     st |-> Log(value.st, [e |-> "raise", kind |-> "ReturnError",
                                           value |-> value.res.value])]
    IN CASE IsSome(return_stmt.value) -> unwind(Evaluate(st, return_stmt.value))
         [] OTHER -> unwind(Ret(st, Ok(Nil)))

----------------------------------------------------------------------------
(* interpreter.rs: execute, evaluate, execute_block, interpret *)

\* Expr::accept
Evaluate(st, expr) ==
    CASE expr.type = "Literal" -> visit_literal_expr(st, expr)
      [] expr.type = "Grouping" -> visit_grouping_expr(st, expr)
      [] expr.type = "Unary" -> visit_unary_expr(st, expr)
      [] expr.type = "Binary" -> visit_binary_expr(st, expr)
      [] expr.type = "Variable" -> visit_variable_expr(st, expr)
      [] expr.type = "Assignment" -> visit_assignment_expr(st, expr)
      [] expr.type = "OR" -> visit_or_expr(st, expr)
      [] expr.type = "AND" -> visit_and_expr(st, expr)
      [] expr.type = "Call" -> visit_call_expr(st, expr)

\* the interpreter as a statement is entered, and the Result as it is left
Entered(st, stmt) ==
    Log(st, [e |-> "enter", node |-> stmt.type, environment |-> st.environment])
Left(st, stmt, r) ==
    [r EXCEPT !.st.trace = Append(@, [e |-> "exit", node |-> stmt.type,
                                      before |-> st.environment,
                                      environment |-> r.st.environment,
                                      res |-> Kind(r.res), value |-> Carried(r.res)])]

\* execute, with the match of Stmt::accept
Execute(st, stmt) ==
    Left(st, stmt,
         CASE stmt.type = "Print" -> visit_print_stmt(Entered(st, stmt), stmt)
           [] stmt.type = "Expression" -> visit_expression_stmt(Entered(st, stmt), stmt)
           [] stmt.type = "VarDeclaration" -> visit_var_decl(Entered(st, stmt), stmt)
           [] stmt.type = "Block" -> visit_block_stmt(Entered(st, stmt), stmt)
           [] stmt.type = "IfStatement" -> visit_if_stmt(Entered(st, stmt), stmt)
           [] stmt.type = "WhileStmt" -> visit_while_stmt(Entered(st, stmt), stmt)
           [] stmt.type = "ForStmt" -> visit_for_stmt(Entered(st, stmt), stmt)
           [] stmt.type = "BreakStmt" -> visit_break_stmt(Entered(st, stmt), stmt)
           [] stmt.type = "ContinueStmt" -> visit_continue_stmt(Entered(st, stmt), stmt)
           [] stmt.type = "FunctionStmt" -> visit_function_stmt(Entered(st, stmt), stmt)
           [] stmt.type = "ReturnStmt" -> visit_return_stmt(Entered(st, stmt), stmt)
           [] stmt.type = "ClassDecl" -> visit_class_decl(Entered(st, stmt), stmt))

\* the closure of execute_block from statement i on, `done` being the Result
\* of the statement before
RECURSIVE execute_block_closure(_, _, _)
execute_block_closure(done, statements, i) ==
    CASE ~done.res.ok -> done
      [] i > Len(statements) -> [done EXCEPT !.res = Ok(Nil)]
      [] OTHER -> execute_block_closure(Execute(done.st, statements[i]), statements, i + 1)

\* execute_block as it would be with `?` on the closure's result: an error
\* leaves before self.environment = previous is reached
execute_block_leaving(st, statements, env) ==
    LET restore(r) == IF r.res.ok THEN [r EXCEPT !.st.environment = st.environment] ELSE r
    IN restore(execute_block_closure(Ret([st EXCEPT !.environment = env], Ok(Nil)),
                                     statements, 1))

execute_block(st, statements, env) ==
    [execute_block_closure(Ret([st EXCEPT !.environment = env], Ok(Nil)), statements, 1)
        EXCEPT !.st.environment = st.environment]

\* interpret from statement i on, `done` being the Result of the statement before
RECURSIVE interpret(_, _, _)
interpret(done, statements, i) ==
    CASE ~done.res.ok -> done
      [] i > Len(statements) -> [done EXCEPT !.res = Ok(Nil)]
      [] OTHER -> interpret(Execute(done.st, statements[i]), statements, i + 1)

----------------------------------------------------------------------------
(* expr.rs: the constructors of the AST nodes *)

Token(lexeme, line) == [lexeme |-> lexeme, line |-> line]

Literal(value) == [type |-> "Literal", value |-> value]
Variable(name) == [type |-> "Variable", name |-> name]
Assignment(name, value) == [type |-> "Assignment", name |-> name, value |-> value]
Binary(left, operator, right) ==
    [type |-> "Binary", left |-> left, operator |-> operator, right |-> right]
Call(callee, arguments) == [type |-> "Call", callee |-> callee, arguments |-> arguments]
OR(left, operator, right) ==
    [type |-> "OR", left |-> left, operator |-> operator, right |-> right]
AND(left, operator, right) ==
    [type |-> "AND", left |-> left, operator |-> operator, right |-> right]

PrintStmt(expression) == [type |-> "Print", expression |-> expression]
Expression(expression) == [type |-> "Expression", expression |-> expression]
VarDecl(name, initializer) ==
    [type |-> "VarDeclaration", name |-> name, initializer |-> initializer]
Block(statements) == [type |-> "Block", statements |-> statements]
IfStatement(condition, then_branch, else_branch) ==
    [type |-> "IfStatement", condition |-> condition, then_branch |-> then_branch,
     else_branch |-> else_branch]
WhileStmt(condition, body) == [type |-> "WhileStmt", condition |-> condition, body |-> body]
ForStmt(initializer, condition, increment, body) ==
    [type |-> "ForStmt", initializer |-> initializer, condition |-> condition,
     increment |-> increment, body |-> body]
BreakStmt == [type |-> "BreakStmt"]
ContinueStmt == [type |-> "ContinueStmt"]
FunctionStmt(name, params, body) ==
    [type |-> "FunctionStmt", name |-> name, params |-> params, body |-> body]
ReturnStmt(value) == [type |-> "ReturnStmt", value |-> value]

ClassDecl(name, methods) == [type |-> "ClassDecl", name |-> name, methods |-> methods]
Get(object, name) == [type |-> "Get", object |-> object, name |-> name]
Set(object, name, value) ==
    [type |-> "Set", object |-> object, name |-> name, value |-> value]
This(keyword) == [type |-> "This", keyword |-> keyword]

----------------------------------------------------------------------------
(* resolver.rs.  A panic! of the resolver is kept in `panicked`: once it is set *)
(* the walk is over and nothing more is resolved.                              *)

Resolver_new(table) ==
    [scopes |-> << <<>> >>, current_function |-> "None", current_class |-> "None",
     locals |-> table, panicked |-> FALSE, message |-> ""]

\* panic!(message): the walk stops here
panic(rs, message) == [rs EXCEPT !.panicked = TRUE, !.message = message]

begin_scope(rs) == [rs EXCEPT !.scopes = Append(@, <<>>)]
end_scope(rs) == [rs EXCEPT !.scopes = SubSeq(@, 1, Len(@) - 1)]

declare(rs, name) ==
    IF rs.panicked \/ Len(rs.scopes) = 0 THEN rs
    ELSE IF name.lexeme \in DOMAIN rs.scopes[Len(rs.scopes)] THEN panic(rs, "Variable with this name already declared in this scope.")
    ELSE [rs EXCEPT !.scopes[Len(rs.scopes)] = insert(@, name.lexeme, FALSE)]

define(rs, name) ==
    IF rs.panicked \/ Len(rs.scopes) = 0 THEN rs
    ELSE [rs EXCEPT !.scopes[Len(rs.scopes)] = insert(@, name.lexeme, TRUE)]

\* Interpreter::resolve
Interpreter_resolve(table, expr, depth) == insert(table, expr, depth)

resolve_local(rs, expr, name) ==
    LET hits == {i \in 0..(Len(rs.scopes) - 1) :
                    name.lexeme \in DOMAIN rs.scopes[Len(rs.scopes) - i]}
    IN IF rs.panicked \/ hits = {} THEN rs
       ELSE LET i == CHOOSE h \in hits : \A g \in hits : h <= g IN
            [rs EXCEPT !.locals = Interpreter_resolve(@, expr, i)]

RECURSIVE resolve_statement(_, _)
RECURSIVE resolve_expression(_, _)

RECURSIVE resolve_statements(_, _, _)
resolve_statements(rs, statements, i) ==
    LET next(r) == resolve_statements(r, statements, i + 1)
    IN CASE rs.panicked -> rs
         [] i > Len(statements) -> rs
         [] OTHER -> next(resolve_statement(rs, statements[i]))

RECURSIVE resolve_expressions(_, _, _)
resolve_expressions(rs, exprs, i) ==
    LET next(r) == resolve_expressions(r, exprs, i + 1)
    IN IF rs.panicked \/ i > Len(exprs) THEN rs
       ELSE next(resolve_expression(rs, exprs[i]))

RECURSIVE declare_params(_, _, _)
declare_params(rs, params, i) ==
    LET next(r) == declare_params(r, params, i + 1)
    IN IF rs.panicked \/ i > Len(params) THEN rs
       ELSE next(define(declare(rs, params[i]), params[i]))

resolve_function(rs, function, type_) ==
    LET leave(r) ==
            IF r.panicked THEN r
            ELSE [end_scope(r) EXCEPT !.current_function = rs.current_function]
    IN leave(resolve_statements(
                declare_params(begin_scope([rs EXCEPT !.current_function = type_]),
                               function.params, 1),
                function.body, 1))

RECURSIVE resolve_methods(_, _, _)
resolve_methods(rs, methods, i) ==
    LET next(r) == resolve_methods(r, methods, i + 1)
    IN IF rs.panicked \/ i > Len(methods) THEN rs
       ELSE next(resolve_function(rs, methods[i], "Method"))

\* end_scope, which a panic before it never reaches
leave_scope(r) == IF r.panicked THEN r ELSE end_scope(r)

Resolver_visit_block_stmt(rs, block) ==
    leave_scope(resolve_statements(begin_scope(rs), block.statements, 1))

Resolver_visit_var_decl(rs, var_decl) ==
    LET initializer(r) ==
            IF IsSome(var_decl.initializer)
            THEN resolve_expression(r, var_decl.initializer) ELSE r
    IN define(initializer(declare(rs, var_decl.name)), var_decl.name)

Resolver_visit_function_stmt(rs, function_stmt) ==
    resolve_function(define(declare(rs, function_stmt.name), function_stmt.name),
                     function_stmt, "Function")

Resolver_visit_if_stmt(rs, if_stmt) ==
    LET else_branch(r) ==
            IF IsSome(if_stmt.else_branch)
            THEN resolve_statement(r, if_stmt.else_branch) ELSE r
        then_branch(r) == else_branch(resolve_statement(r, if_stmt.then_branch))
    IN then_branch(resolve_expression(rs, if_stmt.condition))

Resolver_visit_return_stmt(rs, return_stmt) ==
    IF rs.current_function = "None" THEN panic(rs, "Cannot return from top-level code.")
    ELSE IF IsSome(return_stmt.value)
    THEN IF rs.current_function = "Initializer"
         THEN panic(rs, "Cannot return a value from an initializer.")
         ELSE resolve_expression(rs, return_stmt.value)
    ELSE rs

Resolver_visit_while_stmt(rs, while_stmt) ==
    resolve_statement(resolve_expression(rs, while_stmt.condition), while_stmt.body)

\* `if let Some(..)`: the statement or expression is resolved if there is one
resolve_optional_statement(rs, stmt) ==
    IF IsSome(stmt) THEN resolve_statement(rs, stmt) ELSE rs
resolve_optional_expression(rs, expr) ==
    IF IsSome(expr) THEN resolve_expression(rs, expr) ELSE rs

Resolver_visit_for_stmt(rs, for_stmt) ==
    LET body(r) ==
            leave_scope(resolve_statement(
                            resolve_optional_expression(r, for_stmt.condition),
                            for_stmt.body))
    IN body(resolve_optional_statement(begin_scope(rs), for_stmt.initializer))

Resolver_visit_class_decl(rs, class_decl) ==
    LET enclosing_class == rs.current_class
        leave(r) ==
            IF r.panicked THEN r
            ELSE [define(end_scope(r), class_decl.name)
                    EXCEPT !.current_class = enclosing_class]
        this_scope(r) == [r EXCEPT !.scopes[Len(r.scopes)] = insert(@, "this", TRUE)]
        methods(r) ==
            IF r.panicked THEN r
            ELSE leave(resolve_methods(this_scope(begin_scope(r)),
                                       class_decl.methods, 1))
    IN methods(declare([rs EXCEPT !.current_class = "Class"], class_decl.name))

\* the check as it would be if it looked at every open scope
Resolver_visit_variable_expr_any_scope(rs, expr) ==
    IF \E i \in 1..Len(rs.scopes) :
          /\ expr.name.lexeme \in DOMAIN rs.scopes[i]
          /\ ~rs.scopes[i][expr.name.lexeme]
    THEN panic(rs, "Cannot read local variable in its own initializer.")
    ELSE resolve_local(rs, expr, expr.name)

Resolver_visit_variable_expr(rs, expr) ==
    LET innermost == rs.scopes[Len(rs.scopes)] IN
    IF /\ Len(rs.scopes) # 0
       /\ expr.name.lexeme \in DOMAIN innermost
       /\ ~innermost[expr.name.lexeme]
    THEN panic(rs, "Cannot read local variable in its own initializer.")
    ELSE resolve_local(rs, expr, expr.name)

Resolver_visit_assignment_expr(rs, expr) ==
    LET local(r) == resolve_local(r, expr, expr.name)
    IN local(resolve_expression(rs, expr.value))

Resolver_visit_this_expr(rs, expr) ==
    IF rs.current_class = "None" THEN panic(rs, "Cannot use 'this' outside of a class.")
    ELSE resolve_local(rs, expr, expr.keyword)

\* Stmt::accept with the Resolver as visitor
resolve_statement(rs, stmt) ==
    CASE rs.panicked -> rs
      [] stmt.type = "Block" -> Resolver_visit_block_stmt(rs, stmt)
      [] stmt.type = "VarDeclaration" -> Resolver_visit_var_decl(rs, stmt)
      [] stmt.type = "FunctionStmt" -> Resolver_visit_function_stmt(rs, stmt)
      [] stmt.type = "Expression" -> resolve_expression(rs, stmt.expression)
      [] stmt.type = "IfStatement" -> Resolver_visit_if_stmt(rs, stmt)
      [] stmt.type = "Print" -> resolve_expression(rs, stmt.expression)
      [] stmt.type = "ReturnStmt" -> Resolver_visit_return_stmt(rs, stmt)
      [] stmt.type = "WhileStmt" -> Resolver_visit_while_stmt(rs, stmt)
      [] stmt.type = "BreakStmt" -> rs
      [] stmt.type = "ContinueStmt" -> rs
      [] stmt.type = "ForStmt" -> Resolver_visit_for_stmt(rs, stmt)
      [] stmt.type = "ClassDecl" -> Resolver_visit_class_decl(rs, stmt)

\* Expr::accept with the Resolver as visitor
resolve_expression(rs, expr) ==
    LET right(r) == resolve_expression(r, expr.right)
        arguments(r) == resolve_expressions(r, expr.arguments, 1)
        object(r) == resolve_expression(r, expr.object)
    IN
    IF rs.panicked THEN rs
    ELSE
    CASE expr.type = "Variable" -> Resolver_visit_variable_expr(rs, expr)
      [] expr.type = "Assignment" -> Resolver_visit_assignment_expr(rs, expr)
      [] expr.type = "Binary" -> right(resolve_expression(rs, expr.left))
      [] expr.type = "Unary" -> resolve_expression(rs, expr.right)
      [] expr.type = "Call" -> arguments(resolve_expression(rs, expr.callee))
      [] expr.type = "Grouping" -> resolve_expression(rs, expr.expression)
      [] expr.type = "Literal" -> rs
      [] expr.type = "AND" -> right(resolve_expression(rs, expr.left))
      [] expr.type = "OR" -> right(resolve_expression(rs, expr.left))
      [] expr.type = "Get" -> resolve_expression(rs, expr.object)
      [] expr.type = "Set" -> object(resolve_expression(rs, expr.value))
      [] expr.type = "This" -> Resolver_visit_this_expr(rs, expr)

----------------------------------------------------------------------------
(* The programs handed to the interpreter: what parser.rs builds for source   *)
(* text of the shapes below.  A function body is the one Block the parser     *)
(* makes of `{ ... }`.                                                        *)

Num(n) == Literal(Number(n))
Str(s) == Literal(String(s))
Var(lexeme, line) == Variable(Token(lexeme, line))
\* name = name + 1
Incr(lexeme, line) ==
    Assignment(Token(lexeme, line), Binary(Var(lexeme, line), "PLUS", Num(1)))
\* name < 2
Below2(lexeme, line) == Binary(Var(lexeme, line), "LESS", Num(2))
\* (name = name + 1) < 3
Counting(lexeme, line) == Binary(Incr(lexeme, line), "LESS", Num(3))
DivByZero == Binary(Num(1), "SLASH", Num(0))

\* the statements at the core of a generated statement
Atoms ==
    { BreakStmt, ContinueStmt, ReturnStmt(None), ReturnStmt(Num(7)),
      PrintStmt(Str("atom")), PrintStmt(DivByZero), Expression(DivByZero) }

Wrappers == {"block", "if", "while", "for", "forever"}

\* statement s wrapped in one more construct, whose tokens are on line `line`
Wrap(kind, s, line) ==
    CASE kind = "block" -> Block(<<s, PrintStmt(Str("after"))>>)
      [] kind = "if" -> IfStatement(Literal(Bool(TRUE)), s, None)
      [] kind = "while" -> WhileStmt(Counting("k", line), s)
      [] kind = "for" ->
            ForStmt(VarDecl(Token("i", line), Num(0)), Below2("i", line),
                    Incr("i", line), s)
      [] kind = "forever" ->
            ForStmt(None, None, None, IfStatement(Counting("k", line), s, BreakStmt))

RECURSIVE Stmts(_)
Stmts(depth) ==
    IF depth = 0 THEN Atoms
    ELSE Atoms \cup {Wrap(kind, s, 10 + depth) : kind \in Wrappers, s \in Stmts(depth - 1)}

Prelude == VarDecl(Token("k", 1), Num(0))
Fun(body) == FunctionStmt(Token("f", 2), <<>>, <<Block(body)>>)
CallF(line) == Call(Var("f", line), <<>>)

\* s at the top level; in a function body; in a function called from a loop
AtTop(s) == <<Prelude, s, PrintStmt(Str("end"))>>
InFunction(s) ==
    <<Prelude, Fun(<<s, PrintStmt(Str("rest"))>>), PrintStmt(CallF(30)),
      PrintStmt(Str("end"))>>
CalledFromFor(s) ==
    <<Prelude, Fun(<<s>>),
      ForStmt(VarDecl(Token("j", 30), Num(0)), Below2("j", 30), Incr("j", 30),
              PrintStmt(CallF(31))),
      PrintStmt(Str("end"))>>
CalledFromWhile(s) ==
    <<VarDecl(Token("m", 1), Num(0)), Fun(<<s>>),
      WhileStmt(Counting("m", 30), PrintStmt(CallF(31))),
      PrintStmt(Str("end"))>>

ControlPrograms ==
    UNION {{AtTop(s), InFunction(s)} : s \in Stmts(MaxDepth)}
      \cup UNION {{CalledFromFor(s), CalledFromWhile(s)} : s \in Stmts(MaxDepth - 1)}

\* the bodies an initializer is given
InitializerBodies == {AtTop(s) : s \in Stmts(MaxDepth)}

\* fun g(params) { print x; print <each parameter>; }
G(params) ==
    FunctionStmt(Token("g", 3), [i \in 1..Len(params) |-> Token(params[i], 3)],
                 <<Block(<<PrintStmt(Var("x", 4))>>
                         \o [i \in 1..Len(params) |-> PrintStmt(Var(params[i], 5))])>>)

ParamLists == {<<>>, <<"a">>, <<"a", "b">>}
ArgLists == {<<>>, <<Str("one")>>, <<Str("one"), Str("two")>>}
Callees ==
    { Var("g", 8), Var("clock", 8), Var("x", 8), Str("text"), Num(7),
      Literal(Nil), Literal(Bool(TRUE)) }

\* the call is made in a block of its own, nested in the block that declares g
CalledFromInnerBlock(params, callee, args) ==
    <<VarDecl(Token("x", 1), Str("global")),
      Block(<<VarDecl(Token("x", 2), Str("captured")), G(params),
              Block(<<VarDecl(Token("x", 7), Str("caller")),
                      PrintStmt(Call(callee, args)), PrintStmt(Str("after"))>>)>>),
      PrintStmt(Str("end"))>>
\* the call is made in the block that declares g, after a local x of that block
CalledFromSameBlock(params, callee, args) ==
    <<VarDecl(Token("x", 1), Str("global")),
      Block(<<G(params), VarDecl(Token("x", 7), Str("caller")),
              PrintStmt(Call(callee, args)), PrintStmt(Str("after"))>>),
      PrintStmt(Str("end"))>>

CallPrograms ==
    UNION {{CalledFromInnerBlock(params, callee, args),
            CalledFromSameBlock(params, callee, args)} :
              params \in ParamLists, callee \in Callees, args \in ArgLists}

\* class A { name() { body } }
Method(name, body) == FunctionStmt(Token(name, 2), <<>>, <<Block(body)>>)
ClassA(methods) == ClassDecl(Token("A", 1), methods)
MethodLists ==
    { <<>>,
      <<Method("init", <<PrintStmt(Str("made"))>>)>>,
      <<Method("init", <<ReturnStmt(None)>>)>>,
      <<Method("init", <<ReturnStmt(Num(7))>>)>>,
      <<Method("init", <<IfStatement(Literal(Bool(TRUE)), ReturnStmt(Num(7)), None)>>)>>,
      <<Method("m", <<ReturnStmt(Num(7))>>)>>,
      <<Method("m", <<PrintStmt(Var("A", 3))>>)>>,
      <<Method("m", <<PrintStmt(This(Token("this", 3)))>>)>>,
      <<Method("m", <<ReturnStmt(None)>>), Method("init", <<ReturnStmt(Num(7))>>)>> }

\* the class is declared at the top level, or in a block, and then called
Constructing(methods, args) ==
    <<ClassA(methods), PrintStmt(Call(Var("A", 9), args)), PrintStmt(Str("end"))>>
ConstructingInBlock(methods, args) ==
    <<Block(<<ClassA(methods), PrintStmt(Call(Var("A", 9), args))>>),
      PrintStmt(Str("end"))>>
ClassPrograms ==
    UNION {{Constructing(methods, args), ConstructingInBlock(methods, args)} :
              methods \in MethodLists, args \in ArgLists}

\* var x = <initializer>; at the top level or in a block under a global x
Initializers == {Var("x", 2), Binary(Var("x", 2), "PLUS", Num(1)), Var("k", 2), Num(1)}
DeclaringAtTop(initializer) ==
    <<Prelude, VarDecl(Token("x", 2), initializer), PrintStmt(Var("x", 3))>>
DeclaringInBlock(initializer) ==
    <<Prelude, VarDecl(Token("x", 1), Num(0)),
      Block(<<VarDecl(Token("x", 2), initializer), PrintStmt(Var("x", 3))>>)>>
\* the name read in the initializer is still undefined one scope further out
DeclaringAround(initializer) ==
    <<Prelude, VarDecl(Token("x", 1), Num(0)),
      Block(<<VarDecl(Token("y", 2), initializer), PrintStmt(Var("y", 3))>>)>>
DeclarationPrograms ==
    UNION {{DeclaringAtTop(initializer), DeclaringInBlock(initializer),
            DeclaringAround(initializer)} : initializer \in Initializers}

\* var r = <left> <operator> <right>; after var k = 0;
Operands ==
    {Nil, Bool(TRUE), Bool(FALSE), Number(0), Number(2), String(""), String("a")}
Computing(expr) == <<Prelude, VarDecl(Token("r", 2), expr), PrintStmt(Var("k", 3))>>
\* the right operand of `or` and `and` is the assignment k = 9
LogicalPrograms ==
    {Computing(OR(Literal(left), "OR", Assignment(Token("k", 2), Num(9)))) :
        left \in Operands}
      \cup {Computing(AND(Literal(left), "AND", Assignment(Token("k", 2), Num(9)))) :
                left \in Operands}
ArithmeticPrograms ==
    {Computing(Binary(Literal(left), operator, Literal(right))) :
        left \in Operands, right \in Operands,
        operator \in {"PLUS", "MINUS", "STAR", "SLASH"}}

\* var c = 0; fun inc() { c = c + 1; } fun get() { print c; } then a
\* sequence of calls of the two and print c; in a block, at the top level, or
\* in the body of a function that is then called
Sharing(calls) ==
    <<VarDecl(Token("c", 4), Num(0)),
      FunctionStmt(Token("inc", 5), <<>>, <<Block(<<Expression(Incr("c", 5))>>)>>),
      FunctionStmt(Token("get", 6), <<>>, <<Block(<<PrintStmt(Var("c", 6))>>)>>)>>
      \o [i \in 1..Len(calls) |-> Expression(Call(Var(calls[i], 10 + i), <<>>))]
      \o <<PrintStmt(Var("c", 20))>>
CallSequences == UNION {[1..n -> {"inc", "get"}] : n \in 1..MaxShared}
SharingInBlock(calls) == <<Prelude, Block(Sharing(calls)), PrintStmt(Str("end"))>>
SharingAtTop(calls) == <<Prelude>> \o Sharing(calls) \o <<PrintStmt(Str("end"))>>
SharingInFunction(calls) ==
    <<Prelude, FunctionStmt(Token("make", 3), <<>>, <<Block(Sharing(calls))>>),
      Expression(Call(Var("make", 30), <<>>)), PrintStmt(Str("end"))>>
SharingPrograms ==
    UNION {{SharingInBlock(calls), SharingAtTop(calls), SharingInFunction(calls)} :
              calls \in CallSequences}

\* var x = "outer"; { var x = "inner"; print x; } print x;  and, in one or in
\* two blocks, var x = 1; var x = 2; print x;
Shadowing(inner) ==
    <<Prelude, VarDecl(Token("x", 1), Str("outer")),
      Block(<<VarDecl(Token("x", 2), inner), PrintStmt(Var("x", 3))>>),
      PrintStmt(Var("x", 4))>>
Redeclaring == <<VarDecl(Token("x", 1), Num(1)), VarDecl(Token("x", 2), Num(2)),
                 PrintStmt(Var("x", 3))>>
RedeclaringUnder ==
    <<Prelude, VarDecl(Token("x", 1), Str("outer")), Block(Redeclaring),
      PrintStmt(Var("x", 4))>>
ShadowPrograms ==
    {Shadowing(Str("inner")), Shadowing(None), <<Prelude>> \o Redeclaring,
     <<Prelude, Block(Redeclaring)>>, RedeclaringUnder}

\* { var a = "v"; print a; { print a; } } written on one line, under a global
\* of another name or of the same name
Colliding(global) ==
    <<VarDecl(Token(global, 1), Str("global")),
      Block(<<VarDecl(Token("a", 2), Str("v")), PrintStmt(Var("a", 2)),
              Block(<<PrintStmt(Var("a", 2))>>)>>),
      PrintStmt(Str("end"))>>
CollidingPrograms == {Colliding("k"), Colliding("a")}

\* var a; var b; for (var i = 0; i < 2; i = i + 1) { fun show() { print i; }
\* if (i == 0) a = show; else b = show; <inside> } a(); b();
Capturing(inside) ==
    <<Prelude, VarDecl(Token("a", 1), None), VarDecl(Token("b", 1), None),
      ForStmt(VarDecl(Token("i", 2), Num(0)), Below2("i", 2), Incr("i", 2),
              Block(<<FunctionStmt(Token("show", 3), <<>>,
                                   <<Block(<<PrintStmt(Var("i", 3))>>)>>),
                      IfStatement(Binary(Var("i", 4), "EQUAL_EQUAL", Num(0)),
                                  Expression(Assignment(Token("a", 4), Var("show", 4))),
                                  Expression(Assignment(Token("b", 5), Var("show", 5))))>>
                    \o inside)),
      Expression(Call(Var("a", 8), <<>>)), Expression(Call(Var("b", 9), <<>>)),
      PrintStmt(Str("end"))>>
LoopPrograms == {Capturing(<<>>), Capturing(<<Expression(Call(Var("show", 6), <<>>))>>)}

Programs ==
    LoopPrograms \cup CollidingPrograms \cup ControlPrograms \cup ShadowPrograms \cup SharingPrograms \cup CallPrograms \cup ClassPrograms \cup DeclarationPrograms
      \cup LogicalPrograms \cup ArithmeticPrograms

----------------------------------------------------------------------------
(* lox.rs / main.rs: the driver *)

Init ==
    /\ source \in Programs
    /\ pc = "start"
    /\ resolution = "none"
    /\ envs = Interpreter_new.envs
    /\ environment = Interpreter_new.environment
    /\ locals = Interpreter_new.locals
    /\ out = <<>>
    /\ instances = <<>>
    /\ trace = <<>>
    /\ result = None

\* what a walk of the resolver leaves behind
Resolved(rs) ==
    /\ resolution' = IF rs.panicked THEN "rejected" ELSE "passed"
    /\ locals' = rs.locals
    /\ result' = IF rs.panicked THEN Err(Halt(rs.message)) ELSE result

\* Resolver::new(interpreter).resolve_statements(&statements)
Resolve ==
    /\ pc = "start"
    /\ resolution = "none"
    /\ Resolved(resolve_statements(Resolver_new(locals), source, 1))
    /\ UNCHANGED <<source, pc, envs, environment, out, instances, trace>>

\* the interpreter's fields and the Result once a run of `r` has come back
Returned(r) ==
    /\ envs' = r.st.envs
    /\ environment' = r.st.environment
    /\ out' = r.st.out
    /\ trace' = r.st.trace
    /\ result' = r.res

Interpreter_state ==
    [envs |-> envs, environment |-> environment, locals |-> locals, out |-> out,
     trace |-> trace]

\* Lox::run: self.interpreter.interpret(&statements).  Lox::run itself never
\* runs the resolver; a caller that does runs it first and stops at a panic.
Run ==
    /\ pc = "start"
    /\ resolution # "rejected"
    /\ Returned(interpret(Ret(Interpreter_state, Ok(Nil)), source, 1))
    /\ pc' = "done"
    /\ UNCHANGED <<source, locals, resolution, instances>>

\* the call of an initializer bound to an instance: LoxFunction::bind, then
\* LoxCallable::call, with the statements of `source` as the initializer's body
Construct(bound) ==
    Returned(LoxCallable_call([Interpreter_state EXCEPT !.envs = bound.envs],
                              bound.function, <<>>))

CallInitializer ==
    /\ pc = "start"
    /\ resolution = "none"
    /\ source \in InitializerBodies
    /\ \E instance \in 1..MaxInstances :
          Construct(LoxFunction_bind(envs,
                        LoxFunction_new("init", <<>>, <<Block(source)>>, environment, TRUE),
                        instance))
    /\ pc' = "initialized"
    /\ UNCHANGED <<source, locals, resolution, instances>>

Next == Resolve \/ Run \/ CallInitializer

Spec == Init /\ [][Next]_vars

----------------------------------------------------------------------------
(* The objects of callable.rs and environment.rs used directly, by a        *)
(* sequence of calls of their public methods                                *)

\* calls made in one run on an instance, and on an environment
MaxOps == 3
MaxCalls == 2
\* frames of the environment chain
MaxChain == 3

Names == {"f", "m"}
Values == {Number(1), Number(2)}

\* an instance of a class A that has a method m or none; or a chain of
\* environments, each binding some of the names, and one of them current,
\* used through Environment or through the Interpreter that holds it
ApiInit ==
    /\ source = <<>>
    /\ resolution = "none"
    /\ locals = Interpreter_new.locals
    /\ out = <<>>
    /\ trace = <<>>
    /\ result = None
    /\ \/ /\ pc = "instance"
          /\ envs = Interpreter_new.envs
          /\ environment = Interpreter_new.environment
          /\ \E methods \in {{}, {"m"}} :
                instances = LoxInstance_new(<<>>,
                    LoxClass_new("A", [n \in methods |->
                        LoxFunction_new(n, <<>>, <<Block(<<ReturnStmt(None)>>)>>,
                                        Interpreter_new.environment, FALSE)])).instances
       \/ /\ pc \in {"environment", "interpreter"}
          /\ instances = <<>>
          /\ environment \in 1..MaxChain
          /\ \E bound \in [1..MaxChain -> SUBSET Names] :
                envs = [i \in 1..MaxChain |->
                          [values |-> [n \in bound[i] |-> Number(10 * i)],
                           enclosing |-> IF i = 1 THEN NoEnv ELSE i - 1]]

\* instance.set(name, value), on an instance made by the class or on the
\* `this` of a method got from one
SetField ==
    /\ pc = "instance"
    /\ Len(trace) < MaxOps
    /\ \E self \in DOMAIN instances, name \in Names \cup {"z"}, value \in Values :
          /\ instances' = LoxInstance_set(instances, self, name, value)
          /\ trace' = Append(trace, [e |-> "set", self |-> self, name |-> name,
                                      value |-> value])
    /\ result' = Ok(Nil)
    /\ UNCHANGED <<source, pc, resolution, envs, environment, locals, out>>

\* instance.get(name)
GetField ==
    /\ pc = "instance"
    /\ Len(trace) < MaxOps
    /\ \E self \in DOMAIN instances, name \in Names \cup {"z"} :
          LET got == LoxInstance_get(instances, envs, self, name) IN
          /\ instances' = got.instances
          /\ envs' = got.envs
          /\ result' = got.res
          /\ trace' = Append(trace, [e |-> "get", self |-> self, name |-> name,
                                      res |-> Kind(got.res), value |-> Carried(got.res),
                                      before |-> instances[self].fields,
                                      after |-> got.instances[self].fields])
    /\ UNCHANGED <<source, pc, resolution, environment, locals, out>>

\* the environments and the Result once a call on the current environment has
\* come back
Called(op, distance, name, value, heap, res) ==
    /\ envs' = heap
    /\ result' = res
    /\ trace' = Append(trace, [e |-> op, self |-> environment, distance |-> distance,
                                name |-> name, value |-> value, before |-> envs,
                                after |-> heap, res |-> Kind(res),
                                got |-> Carried(res)])
    /\ UNCHANGED <<source, pc, resolution, environment, locals, out, instances>>

\* environment.put(name, value)
Put ==
    /\ pc = "environment"
    /\ Len(trace) < MaxCalls
    /\ \E name \in Names, value \in Values :
          LET p == Environment_put(envs, environment, name, value)
          IN Called("put", 0, name, value, p.envs, p.res)

\* get_at(distance, name), of the Environment or of the Interpreter
GetAt ==
    /\ pc \in {"environment", "interpreter"}
    /\ Len(trace) < MaxCalls
    /\ \E distance \in 0..MaxChain, name \in Names :
          IF pc = "interpreter"
          THEN Called("get_at", distance, name, Nil, envs,
                      Interpreter_get_at(Interpreter_state, distance, name).res)
          ELSE Called("get_at", distance, name, Nil, envs,
                      Environment_get_at(envs, environment, distance, name))

\* assign_at(distance, name, value), of the Environment or of the Interpreter
AssignAt ==
    /\ pc \in {"environment", "interpreter"}
    /\ Len(trace) < MaxCalls
    /\ \E distance \in 0..MaxChain, name \in Names :
          LET value == Number(1)
              i == Interpreter_assign_at(Interpreter_state, distance,
                                         Token(name, 0), value)
              e == Environment_assign_at(envs, environment, distance, name, value)
          IN IF pc = "interpreter"
             THEN Called("assign_at", distance, name, value, i.st.envs, i.res)
             ELSE Called("assign_at", distance, name, value, e.envs, e.res)

ApiNext == SetField \/ GetField \/ Put \/ GetAt \/ AssignAt

ApiSpec == ApiInit /\ [][ApiNext]_vars

----------------------------------------------------------------------------
(* Reading the trace *)

Events == 1..Len(trace)
Is(i, kind) == trace[i].e = kind
Signals == {"BREAK", "CONTINUE", "ReturnError"}
\* a runtime error that is neither a control-flow signal nor a cut-off
Genuine(kind) == kind \notin Signals \cup {"Ok", "Halt"}

\* the last event of one of `kinds` before event i, the first after; 0 if none
LastBefore(i, kinds) ==
    LET before == {j \in 1..(i - 1) : trace[j].e \in kinds}
    IN IF before = {} THEN 0 ELSE CHOOSE j \in before : \A k \in before : k <= j
FirstAfter(i, kinds) ==
    LET after == {j \in (i + 1)..Len(trace) : trace[j].e \in kinds}
    IN IF after = {} THEN 0 ELSE CHOOSE j \in after : \A k \in after : j <= k

\* the call event of the innermost call that is not over at event i (for a
\* call_exit, the call it ends); 0 if no call is going on
CallOf(i) ==
    LET between(j, kind) == Cardinality({k \in (j + 1)..(i - 1) : Is(k, kind)})
        open == {j \in 1..(i - 1) :
                    Is(j, "call") /\ between(j, "call") = between(j, "call_exit")}
    IN IF open = {} THEN 0 ELSE CHOOSE j \in open : \A k \in open : k <= j

\* event i happens in the body of a user function called by a call expression
InCall(i) ==
    LET c == CallOf(i)
    IN c # 0 /\ Is(c + 1, "call_enter") /\ ~trace[c + 1].is_initializer

----------------------------------------------------------------------------
(* Scoping and control flow *)

\* C1: once a block statement, a for statement or a call of a user function
\* is over, the current environment is the one that was current before it,
\* whether it ended normally, by a signal or by an error.
C1_EnvironmentRestored ==
    /\ \A i \in Events :
          Is(i, "exit") /\ trace[i].node \in {"Block", "ForStmt"}
              => trace[i].environment = trace[i].before
    /\ \A i \in Events :
          Is(i, "call_exit") =>
              /\ trace[i].environment = trace[CallOf(i)].environment
              /\ FirstAfter(i, {"exit"}) # 0
              /\ trace[FirstAfter(i, {"exit"})].environment
                    = trace[CallOf(i)].environment
    /\ pc \in {"done", "initialized"} => environment = Interpreter_new.environment

\* C1's case: a block and a call left by a signal, and a for statement left
C1_Witness ==
    /\ pc = "done"
    /\ \E i \in Events :
          Is(i, "exit") /\ trace[i].node = "Block" /\ trace[i].res = "BREAK"
    /\ \E i \in Events : Is(i, "call_exit") /\ trace[i].res = "BREAK"
    /\ \E i \in Events : Is(i, "exit") /\ trace[i].node = "ForStmt"

\* C2: a break or continue raised in the body of a user function does not
\* cross the call: no call returns it, and no loop of the caller gets it back
\* from its body.
C2_SignalsStayInCall ==
    /\ \A i \in Events :
          Is(i, "call_exit") => trace[i].res \notin {"BREAK", "CONTINUE"}
    /\ \A i \in Events :
          Is(i, "body") /\ trace[i].res \in {"BREAK", "CONTINUE"} =>
              \A j \in LastBefore(i, {"raise"})..i : ~Is(j, "call_exit")

\* C3: in a for loop that has an increment, a body that ends with continue is
\* followed by the increment, not directly by the next condition check.
C3_ContinueRunsIncrement ==
    \A i \in Events :
        /\ Is(i, "body") /\ trace[i].loop = "for"
        /\ trace[i].increment /\ trace[i].res = "CONTINUE"
        => /\ i < Len(trace)
           /\ ~Is(i + 1, "cond")
           /\ Is(i + 1, "increment") \/ trace[i + 1].e = "exit"

\* C4: a runtime error is never recovered: once it is raised no statement is
\* entered any more, and interpret returns that error.
C4_ErrorsPropagate ==
    \A i \in Events :
        Is(i, "raise") /\ Genuine(trace[i].kind) =>
            /\ \A j \in (i + 1)..Len(trace) : ~Is(j, "enter")
            /\ pc = "done" => Kind(result) = trace[i].kind

\* C5: interpret of a program that passed resolution never returns a failure
\* that carries a return, break or continue signal.
C5_NoSignalReachesHost ==
    pc = "done" /\ resolution = "passed" => Kind(result) \notin Signals

\* C6: in a while loop a break from the body ends the loop with no further
\* condition check and a continue is followed next by the condition check; in
\* both cases the while statement completes normally.  A return signal or a
\* genuine runtime error from the body is what the while statement returns.
C6_WhileSignals ==
    \A i \in Events :
        Is(i, "body") /\ trace[i].loop = "while" =>
            /\ i < Len(trace)
            /\ trace[i].res = "BREAK" =>
                  /\ Is(i + 1, "exit") /\ trace[i + 1].node = "WhileStmt"
                  /\ trace[i + 1].res = "Ok"
            /\ trace[i].res = "CONTINUE" =>
                  \/ Is(i + 1, "cond") /\ trace[i + 1].loop = "while"
                  \/ Is(i + 1, "exit") /\ trace[i + 1].res = "Halt"
            /\ trace[i].res \notin {"Ok", "BREAK", "CONTINUE"} =>
                  /\ Is(i + 1, "exit") /\ trace[i + 1].node = "WhileStmt"
                  /\ trace[i + 1].res = trace[i].res
                  /\ trace[i + 1].value = trace[i].value

\* C6's case: a while loop in a function whose body returned 7 to it, in a
\* run that went on after the call
C6_Witness ==
    /\ pc = "done"
    /\ \E i \in Events :
          /\ Is(i, "body") /\ trace[i].loop = "while"
          /\ trace[i].res = "ReturnError" /\ trace[i].value = Number(7)
    /\ out # <<>>

\* C7: a return in the body of a called function, at any depth of blocks, ifs
\* and loops, unwinds to the call: nothing of the body runs after it and the
\* call yields the returned value.  A body that ends without a return yields
\* nil.
C7_ReturnUnwinds ==
    /\ \A i \in Events :
          Is(i, "raise") /\ trace[i].kind = "ReturnError" /\ InCall(i) =>
              LET x == FirstAfter(i, {"call_exit"}) IN
              /\ x # 0
              /\ \A j \in (i + 1)..(x - 1) : trace[j].e \in {"exit", "body"}
              /\ trace[x].res = "Ok"
              /\ trace[x].value = trace[i].value
    /\ \A x \in Events :
          /\ Is(x, "call_exit") /\ trace[x].res = "Ok"
          /\ Is(CallOf(x) + 1, "call_enter")
          /\ \A j \in CallOf(x)..x :
                ~(Is(j, "raise") /\ trace[j].kind = "ReturnError" /\ CallOf(j) = CallOf(x))
          => trace[x].value = Nil

\* C7's case: 7 returned from inside a while loop inside a for loop of a
\* function body, and the call that yields it
C7_Witness ==
    \E i \in Events :
        /\ Is(i, "raise") /\ trace[i].kind = "ReturnError" /\ InCall(i)
        /\ trace[i].value = Number(7)
        /\ \E j, k \in (i + 1)..Len(trace) :
              /\ j < k /\ k < FirstAfter(i, {"call_exit"})
              /\ Is(j, "body") /\ trace[j].loop = "while"
              /\ Is(k, "body") /\ trace[k].loop = "for"
        /\ out = <<"7", "end">>

\* the declaration of the function that call_enter event i enters
Declaration(i) ==
    LET funs == {j \in 1..(i - 1) : Is(j, "fun") /\ trace[j].name = trace[i].name}
    IN CHOOSE j \in funs : \A k \in funs : k <= j

\* C8: the body of a called function runs in a new environment whose parent
\* is the environment of the declaration, the i-th argument is bound to the
\* i-th parameter, and a free variable of the body is never bound to a local
\* of the caller (the only one of that name here has the value "caller").
C8_LexicalScope ==
    /\ \A i \in Events :
          Is(i, "call_enter") /\ ~trace[i].is_initializer =>
              LET d == trace[Declaration(i)]
                  c == trace[LastBefore(i, {"call"})]
              IN /\ envs[trace[i].env].enclosing = d.closure
                 /\ \A k \in 1..Len(d.params) :
                       trace[i].values[d.params[k]] = c.arguments[k]
    /\ \A i \in 1..Len(out) : out[i] # "caller"

\* how many arguments the callee of call event i takes, by its declaration
Expected(i) ==
    LET funs == {j \in 1..(i - 1) :
                    Is(j, "fun") /\ trace[j].name = trace[i].callee.f.name}
    IN CASE trace[i].callee.t = "Class" -> 0
         [] trace[i].callee.f.kind = "NativeFunction" -> create_clock_function.arity
         [] OTHER -> Len(trace[CHOOSE j \in funs : \A k \in funs : k <= j].params)
\* call event i has a callee that cannot be called, or the wrong number of
\* arguments
Mismatch(i) ==
    \/ trace[i].callee.t \notin {"Callable", "Class"}
    \/ Len(trace[i].arguments) # Expected(i)

\* C9: a call with a callee that is not callable or with the wrong number of
\* arguments yields a runtime error: the body is not entered and the call
\* leaves every environment as it found it.
C9_BadCallRejected ==
    \A i \in Events :
        Is(i, "call") /\ Mismatch(i) =>
            /\ i + 2 <= Len(trace)
            /\ Is(i + 1, "raise") /\ trace[i + 1].kind = "RIGHT_PAREN"
            /\ Is(i + 2, "call_exit") /\ trace[i + 2].res = "RIGHT_PAREN"
            /\ trace[i + 2].envs = trace[i].envs

\* C9's case: a function of two parameters called with one argument
C9_Witness ==
    \E i \in Events :
        /\ Is(i, "call") /\ trace[i].callee.t = "Callable"
        /\ trace[i].callee.f.kind = "LoxFunction"
        /\ Len(trace[i].callee.f.params) = 2 /\ Len(trace[i].arguments) = 1
        /\ Is(i + 2, "call_exit")

\* C10: the call of an initializer that completes yields the instance bound
\* to `this` in its closure.
C10_InitializerYieldsThis ==
    pc = "initialized" /\ result.ok
        => result.value = envs[trace[1].closure].values["this"]

----------------------------------------------------------------------------
(* Classes and instances *)

\* C11: a call whose callee is a class value and that passes no argument
\* succeeds and yields a new instance of that class with no field.
C11_ClassCallConstructs ==
    \A i \in Events :
        Is(i, "call") /\ trace[i].callee.t = "Class" /\ trace[i].arguments = <<>> =>
            LET x == trace[FirstAfter(i, {"call_exit"})] IN
            /\ x.res = "Ok"
            /\ x.value.t = "Instance"
            /\ x.value.rc \in DOMAIN instances
            /\ instances[x.value.rc].class.name = trace[i].callee.c.name
            /\ instances[x.value.rc].fields = <<>>

\* the instance that `this` names in the closure of bound method f
BoundThis(f) == envs[f.closure].values["this"]
\* the get events that returned a method
MethodGets == {g \in Events : Is(g, "get") /\ trace[g].res = "Ok"
                                /\ trace[g].value.t = "Callable"}

\* C12: a method got from an instance is bound to that instance: what is
\* written through `this` is seen on the instance and what is set on the
\* instance afterwards is seen through `this`, so both show the same fields.
C12_BoundToSameInstance ==
    \A g \in MethodGets :
        /\ BoundThis(trace[g].value.f).t = "Instance"
        /\ instances[BoundThis(trace[g].value.f).rc].fields
              = instances[trace[g].self].fields

\* C13: on an instance made by the class, get(name) returns the last value
\* set for name if there is one, even if the class has a method of that name;
\* otherwise the method of that name bound to the instance; otherwise an
\* undefined-property error that leaves the fields as they were.
C13_FieldsShadowMethods ==
    \A g \in Events :
        /\ Is(g, "get")
        /\ \A m \in MethodGets : BoundThis(trace[m].value.f).rc # trace[g].self
        => LET o == trace[g].self
               n == trace[g].name
               sets == {j \in 1..(g - 1) :
                           Is(j, "set") /\ trace[j].self = o /\ trace[j].name = n}
               methods == instances[o].class.methods
           IN CASE sets # {} ->
                     /\ trace[g].res = "Ok"
                     /\ trace[g].value
                           = trace[CHOOSE j \in sets : \A k \in sets : k <= j].value
                [] n \in DOMAIN methods ->
                     /\ trace[g].res = "Ok"
                     /\ trace[g].value.t = "Callable"
                     /\ trace[g].value.f.name = n
                     /\ trace[g].value.f.body = methods[n].body
                     /\ BoundThis(trace[g].value.f) = Instance(o)
                [] OTHER ->
                     /\ trace[g].res = "IDENTIFIER"
                     /\ trace[g].after = trace[g].before

----------------------------------------------------------------------------
(* The environment chain *)

\* the number of enclosing links from env to the root, and the frame d links
\* out from env
RECURSIVE Links(_, _)
Links(heap, env) ==
    IF heap[env].enclosing = NoEnv THEN 0 ELSE 1 + Links(heap, heap[env].enclosing)
RECURSIVE FrameOut(_, _, _)
FrameOut(heap, env, d) ==
    IF d = 0 THEN env ELSE FrameOut(heap, heap[env].enclosing, d - 1)
\* the distances from env at which a frame binds name
Binders(heap, env, name) ==
    {d \in 0..Links(heap, env) : name \in DOMAIN heap[FrameOut(heap, env, d)].values}

\* C14: put on a chain in which no frame binds the name returns the
\* undefined-variable error and leaves every frame as it was; otherwise it
\* changes the binding in the innermost frame that binds the name, and only it.
C14_PutAssignsInnermost ==
    \A i \in Events :
        Is(i, "put") =>
            LET c == trace[i]
                binders == Binders(c.before, c.self, c.name)
                innermost == FrameOut(c.before, c.self,
                                      CHOOSE d \in binders : \A b \in binders : d <= b)
            IN IF binders = {}
               THEN c.res = "IDENTIFIER" /\ c.after = c.before
               ELSE /\ c.res = "Ok"
                    /\ c.after = [c.before EXCEPT ![innermost].values[c.name] = c.value]

\* C14's case: a put from the root that fails for a name bound only further in,
\* after a put of another name that went to the root past an inner current frame
C14_Witness ==
    /\ Len(trace) = 2
    /\ Is(1, "put") /\ trace[1].res = "IDENTIFIER"
    /\ trace[1].self = 1 /\ trace[1].name \in DOMAIN trace[1].before[2].values
    /\ Is(2, "put") /\ trace[2].res = "Ok"

\* C15: get_at and assign_at look only at the frame exactly d links out: if it
\* does not bind the name they fail and change nothing, even if a farther
\* frame binds it, and assign_at changes no other frame.
C15_ExactFrameOnly ==
    \A i \in Events :
        /\ trace[i].e \in {"get_at", "assign_at"}
        /\ trace[i].distance <= Links(trace[i].before, trace[i].self)
        => LET c == trace[i]
               frame == FrameOut(c.before, c.self, c.distance)
           IN /\ c.name \notin DOMAIN c.before[frame].values
                    => c.res # "Ok" /\ c.after = c.before
              /\ \A other \in DOMAIN c.before :
                    other # frame => c.after[other] = c.before[other]

\* C16: get_at and assign_at with a distance greater than the number of
\* enclosing links return an error: no panic, no frame read or written.
C16_MalformedDistanceFails ==
    \A i \in Events :
        /\ trace[i].e \in {"get_at", "assign_at"}
        /\ trace[i].distance > Links(trace[i].before, trace[i].self)
        => /\ trace[i].res \notin {"Ok", "Halt"}
           /\ trace[i].after = trace[i].before

\* C29: after assign_at(d, name, value) has succeeded on an environment whose
\* frame d links out binds name, get_at(d, name) on the same environment
\* returns value, also for d = 0, where the frame written is the environment
\* itself.
C29_AssignThenGet ==
    \A i \in Events :
        /\ Is(i, "assign_at") /\ trace[i].res = "Ok"
        /\ trace[i].distance <= Links(trace[i].before, trace[i].self)
        /\ trace[i].name \in
              DOMAIN trace[i].before[FrameOut(trace[i].before, trace[i].self,
                                              trace[i].distance)].values
        /\ i + 1 \in Events /\ Is(i + 1, "get_at")
        /\ trace[i + 1].self = trace[i].self
        /\ trace[i + 1].distance = trace[i].distance
        /\ trace[i + 1].name = trace[i].name
        => trace[i + 1].res = "Ok" /\ trace[i + 1].got = trace[i].value

----------------------------------------------------------------------------
(* Static resolution *)

\* A walk of the syntax tree that keeps the names declared in each open scope
\* and collects the variable reads and assignment targets whose name is
\* declared in a scope enclosing them.
InScope(w, lexeme) == \E i \in 1..Len(w.scopes) : lexeme \in w.scopes[i]
Declared(w, lexeme) == [w EXCEPT !.scopes[Len(w.scopes)] = @ \cup {lexeme}]
Opened(w, names) == [w EXCEPT !.scopes = Append(@, names)]
Closed(w) == [w EXCEPT !.scopes = SubSeq(@, 1, Len(@) - 1)]
\* the number of scopes between the innermost one and the innermost one that
\* declares lexeme
Depth(w, lexeme) ==
    LET declaring == {i \in 1..Len(w.scopes) : lexeme \in w.scopes[i]}
    IN Len(w.scopes) - CHOOSE i \in declaring : \A j \in declaring : j <= i
Referring(w, expr) ==
    IF InScope(w, expr.name.lexeme)
    THEN [w EXCEPT !.refs = @ \cup {expr},
                   !.at = @ \cup {<<expr, Depth(w, expr.name.lexeme)>>}]
    ELSE w
Lexemes(tokens) == {tokens[i].lexeme : i \in DOMAIN tokens}

RECURSIVE WalkStatement(_, _)
RECURSIVE WalkExpression(_, _)

RECURSIVE WalkStatements(_, _, _)
WalkStatements(w, statements, i) ==
    IF i > Len(statements) THEN w
    ELSE WalkStatements(WalkStatement(w, statements[i]), statements, i + 1)

RECURSIVE WalkExpressions(_, _, _)
WalkExpressions(w, exprs, i) ==
    IF i > Len(exprs) THEN w
    ELSE WalkExpressions(WalkExpression(w, exprs[i]), exprs, i + 1)

WalkFunction(w, function) ==
    Closed(WalkStatements(Opened(w, Lexemes(function.params)), function.body, 1))

RECURSIVE WalkMethods(_, _, _)
WalkMethods(w, methods, i) ==
    IF i > Len(methods) THEN w
    ELSE WalkMethods(WalkFunction(w, methods[i]), methods, i + 1)

WalkOptionalStatement(w, stmt) == IF IsSome(stmt) THEN WalkStatement(w, stmt) ELSE w
WalkOptionalExpression(w, expr) == IF IsSome(expr) THEN WalkExpression(w, expr) ELSE w

WalkStatement(w, stmt) ==
    CASE stmt.type = "Block" -> Closed(WalkStatements(Opened(w, {}), stmt.statements, 1))
      [] stmt.type = "VarDeclaration" ->
            WalkOptionalExpression(Declared(w, stmt.name.lexeme), stmt.initializer)
      [] stmt.type = "FunctionStmt" -> WalkFunction(Declared(w, stmt.name.lexeme), stmt)
      [] stmt.type \in {"Expression", "Print"} -> WalkExpression(w, stmt.expression)
      [] stmt.type = "IfStatement" ->
            WalkOptionalStatement(
                WalkStatement(WalkExpression(w, stmt.condition), stmt.then_branch),
                stmt.else_branch)
      [] stmt.type = "ReturnStmt" -> WalkOptionalExpression(w, stmt.value)
      [] stmt.type = "WhileStmt" ->
            WalkStatement(WalkExpression(w, stmt.condition), stmt.body)
      [] stmt.type = "ForStmt" ->
            Closed(WalkStatement(
                     WalkOptionalExpression(
                       WalkOptionalExpression(
                         WalkOptionalStatement(Opened(w, {}), stmt.initializer),
                         stmt.condition),
                       stmt.increment),
                     stmt.body))
      [] stmt.type = "ClassDecl" ->
            Closed(WalkMethods(Opened(Declared(w, stmt.name.lexeme), {"this"}),
                               stmt.methods, 1))
      [] OTHER -> w

WalkExpression(w, expr) ==
    CASE expr.type = "Variable" -> Referring(w, expr)
      [] expr.type = "Assignment" -> Referring(WalkExpression(w, expr.value), expr)
      [] expr.type \in {"Binary", "AND", "OR"} ->
            WalkExpression(WalkExpression(w, expr.left), expr.right)
      [] expr.type = "Unary" -> WalkExpression(w, expr.right)
      [] expr.type = "Call" ->
            WalkExpressions(WalkExpression(w, expr.callee), expr.arguments, 1)
      [] expr.type = "Grouping" -> WalkExpression(w, expr.expression)
      [] expr.type = "Get" -> WalkExpression(w, expr.object)
      [] expr.type = "Set" -> WalkExpression(WalkExpression(w, expr.value), expr.object)
      [] OTHER -> w

Walked == WalkStatements([scopes |-> << {} >>, refs |-> {}, at |-> {}], source, 1)
References == Walked.refs

\* C17: after a walk of the resolver that accepts the program, every variable
\* read and every assignment target whose name is declared in an enclosing
\* scope has an entry in the distance table, those in the increment clause of
\* a for statement included.
C17_DeclaredNamesResolved ==
    resolution = "passed" => References \subseteq DOMAIN locals

\* the class declarations of a statement, the methods of a class named init,
\* and whether a statement returns a value (in the function it is in)
RECURSIVE ClassesIn(_)
ClassesIn(stmt) ==
    CASE stmt.type = "ClassDecl" -> {stmt}
      [] stmt.type = "Block" ->
            UNION {ClassesIn(stmt.statements[i]) : i \in DOMAIN stmt.statements}
      [] OTHER -> {}
InitMethods(class) ==
    {class.methods[i] : i \in {j \in DOMAIN class.methods :
                                    class.methods[j].name.lexeme = "init"}}
RECURSIVE ReturnsValue(_)
ReturnsValue(stmt) ==
    CASE stmt.type = "ReturnStmt" -> IsSome(stmt.value)
      [] stmt.type = "Block" ->
            \E i \in DOMAIN stmt.statements : ReturnsValue(stmt.statements[i])
      [] stmt.type = "IfStatement" ->
            \/ ReturnsValue(stmt.then_branch)
            \/ IsSome(stmt.else_branch) /\ ReturnsValue(stmt.else_branch)
      [] stmt.type \in {"WhileStmt", "ForStmt"} -> ReturnsValue(stmt.body)
      [] OTHER -> FALSE

\* C18: the resolver rejects a program in which the method init of a class
\* returns a value, and accepts an init whose return statements carry none.
C18_InitializerReturnsNoValue ==
    resolution # "none" =>
        \A i \in DOMAIN source : \A class \in ClassesIn(source[i]) :
            \A init \in InitMethods(class) :
                IF \E j \in DOMAIN init.body : ReturnsValue(init.body[j])
                THEN /\ resolution = "rejected"
                     /\ result = Err(Halt("Cannot return a value from an initializer."))
                ELSE resolution = "passed"

\* whether a statement holds a break or continue that no loop of the function
\* it is in encloses
RECURSIVE Stray(_, _)
Stray(stmt, in_loop) ==
    CASE stmt.type \in {"BreakStmt", "ContinueStmt"} -> ~in_loop
      [] stmt.type = "Block" ->
            \E i \in DOMAIN stmt.statements : Stray(stmt.statements[i], in_loop)
      [] stmt.type = "IfStatement" ->
            \/ Stray(stmt.then_branch, in_loop)
            \/ IsSome(stmt.else_branch) /\ Stray(stmt.else_branch, in_loop)
      [] stmt.type = "WhileStmt" -> Stray(stmt.body, TRUE)
      [] stmt.type = "ForStmt" ->
            \/ IsSome(stmt.initializer) /\ Stray(stmt.initializer, in_loop)
            \/ Stray(stmt.body, TRUE)
      [] stmt.type = "FunctionStmt" ->
            \E i \in DOMAIN stmt.body : Stray(stmt.body[i], FALSE)
      [] stmt.type = "ClassDecl" ->
            \E m \in DOMAIN stmt.methods :
                \E i \in DOMAIN stmt.methods[m].body :
                    Stray(stmt.methods[m].body[i], FALSE)
      [] OTHER -> FALSE

\* C19: the resolver rejects a program with a break or continue that is not
\* lexically inside a loop: at the top level, or in a function body with no
\* loop around it in that body.
C19_StrayBreakRejected ==
    /\ resolution # "none"
    /\ \E i \in DOMAIN source : Stray(source[i], FALSE)
    => resolution = "rejected"

\* the reads of `lexeme` in an expression, and in the body of a function
ReadsIn(expr, lexeme) ==
    {r \in WalkExpression([scopes |-> << {lexeme} >>, refs |-> {}, at |-> {}], expr).refs :
        r.type = "Variable"}
ReadsInFunction(function, lexeme) ==
    {r \in WalkFunction([scopes |-> << {lexeme} >>, refs |-> {}, at |-> {}], function).refs :
        r.type = "Variable" /\ r.name.lexeme = lexeme}

\* whether a statement holds a declaration whose initializer reads the name
\* being declared
RECURSIVE SelfReading(_)
SelfReading(stmt) ==
    CASE stmt.type = "VarDeclaration" ->
            IsSome(stmt.initializer) /\ ReadsIn(stmt.initializer, stmt.name.lexeme) # {}
      [] stmt.type = "Block" ->
            \E i \in DOMAIN stmt.statements : SelfReading(stmt.statements[i])
      [] stmt.type = "IfStatement" ->
            \/ SelfReading(stmt.then_branch)
            \/ IsSome(stmt.else_branch) /\ SelfReading(stmt.else_branch)
      [] stmt.type = "WhileStmt" -> SelfReading(stmt.body)
      [] stmt.type = "ForStmt" ->
            \/ IsSome(stmt.initializer) /\ SelfReading(stmt.initializer)
            \/ SelfReading(stmt.body)
      [] stmt.type = "FunctionStmt" ->
            \E i \in DOMAIN stmt.body : SelfReading(stmt.body[i])
      [] stmt.type = "ClassDecl" ->
            \E m \in DOMAIN stmt.methods :
                \E i \in DOMAIN stmt.methods[m].body : SelfReading(stmt.methods[m].body[i])
      [] OTHER -> FALSE

OwnInitializerRejected ==
    /\ resolution = "rejected"
    /\ result = Err(Halt("Cannot read local variable in its own initializer."))

\* the reads of a class's own name in its methods
OwnNameReads ==
    UNION {UNION {UNION {ReadsInFunction(class.methods[m], class.name.lexeme) :
                            m \in DOMAIN class.methods} :
                     class \in ClassesIn(source[i])} :
              i \in DOMAIN source}

\* C20: the resolver rejects a variable read exactly when the name is declared
\* but not yet defined in the innermost scope (var x = x;); a read whose
\* declared-but-undefined entry lives in an outer scope, such as a class's own
\* name read in one of its methods, is accepted and resolved to that scope.
C20_OwnInitializerOnly ==
    resolution # "none" =>
        /\ OwnInitializerRejected <=> \E i \in DOMAIN source : SelfReading(source[i])
        /\ \A read \in OwnNameReads :
              /\ ~OwnInitializerRejected
              /\ resolution = "passed" => read \in DOMAIN locals /\ locals[read] > 0

\* C20's case: a class whose method reads the class's name has been resolved
C20_Witness ==
    /\ resolution = "passed"
    /\ \E read \in OwnNameReads : read \in DOMAIN locals

\* C26: the distance table holds for every resolved reference its own
\* distance, also for two references of the same name on the same line at
\* different depths from the declaration: resolving the later one does not
\* overwrite the distance of the earlier one.
C26_OwnDistance ==
    resolution = "passed" =>
        \A reference \in Walked.at :
            reference[1] \in DOMAIN locals => locals[reference[1]] = reference[2]

\* the reads and assignments of variables the interpreter has made
Accesses == {i \in Events : trace[i].e \in {"read", "assign"}}

\* C27: the scopes of the resolver match the environments of the run one to
\* one: for every resolved reference, the recorded distance walked from the
\* environment current at the reference ends in a frame of the chain, and
\* that frame is the one that holds the variable.
C27_DistancesMatchFrames ==
    \A i \in Accesses :
        trace[i].resolved =>
            /\ trace[i].distance <= Links(trace[i].before, trace[i].environment)
            /\ trace[i].name \in
                  DOMAIN trace[i].before[FrameOut(trace[i].before, trace[i].environment,
                                                  trace[i].distance)].values

\* C28: a read or an assignment of a variable with no entry in the distance
\* table goes to the root environment: it never reads or writes a binding of
\* that name in an environment between the current one and the root.
C28_UnresolvedIsGlobal ==
    \A i \in Accesses :
        ~trace[i].resolved =>
            LET a == trace[i]
                root == a.before[1].values
            IN /\ a.res = IF a.name \in DOMAIN root THEN "Ok" ELSE "IDENTIFIER"
               /\ a.e = "read" /\ a.res = "Ok" => a.value = root[a.name]
               /\ \A frame \in DOMAIN a.before \ {1} : a.after[frame] = a.before[frame]
               /\ a.e = "assign" /\ a.res = "Ok" => a.after[1].values[a.name] = a.value

----------------------------------------------------------------------------
(* Operators *)

\* nil and false are the falsey values
Falsey(value) == value = Nil \/ value = Bool(FALSE)
\* the binding of a global once the program has run
Global(name) == envs[1].values[name]

\* C21: `or` yields its left operand's value without evaluating the right one
\* when the left is truthy, and the right operand's value otherwise; `and`
\* does so when the left is falsey.  The value is the operand's own, not a
\* boolean made of it.
C21_ShortCircuit ==
    pc = "done" /\ source \in LogicalPrograms =>
        LET expr == source[2].initializer
            left == expr.left.value
            short == IF expr.type = "OR" THEN ~Falsey(left) ELSE Falsey(left)
        IN /\ result.ok
           /\ Global("r") = IF short THEN left ELSE Number(9)
           /\ Global("k") = IF short THEN Number(0) ELSE Number(9)

\* C21's case: `0 or (k = 9)` has yielded the number 0 and left k alone
C21_Witness ==
    /\ pc = "done" /\ source \in LogicalPrograms
    /\ source[2].initializer.type = "OR"
    /\ source[2].initializer.left.value = Number(0)
    /\ Global("r") = Number(0) /\ Global("k") = Number(0)

\* the run has ended in a runtime error and r was never defined
Failed ==
    /\ ~result.ok /\ result.err.variant = "RuntimeError"
    /\ "r" \notin DOMAIN envs[1].values
Computed(operator) ==
    /\ pc = "done" /\ source \in ArithmeticPrograms
    /\ source[2].initializer.operator = operator

\* C22: `+` yields the sum of two numbers, the concatenation of two strings,
\* the concatenation with the number as text of a string and a number in
\* either order, and a runtime error for every other pair of operands.
C22_Plus ==
    Computed("PLUS") =>
        LET l == source[2].initializer.left.value
            r == source[2].initializer.right.value
            text(v) == IF v.t = "String" THEN v.s ELSE ToString(v.n)
        IN CASE l.t = "Number" /\ r.t = "Number" ->
                    result.ok /\ Global("r") = Number(l.n + r.n)
             [] {l.t, r.t} \subseteq {"Number", "String"} ->
                    result.ok /\ Global("r") = String(text(l) \o text(r))
             [] OTHER -> Failed

\* C22's case: 2 + "a" has yielded the string "2a"
C22_Witness ==
    /\ Computed("PLUS")
    /\ source[2].initializer.left.value = Number(2)
    /\ source[2].initializer.right.value = String("a")
    /\ Global("r") = String("2a")

\* C23: `-`, `*` and `/` yield a runtime error carrying the operator unless
\* both operands are numbers, and `/` by zero yields a runtime error whatever
\* the left operand is.
C23_Arithmetic ==
    \A operator \in {"MINUS", "STAR", "SLASH"} :
        Computed(operator) =>
            LET l == source[2].initializer.left.value
                r == source[2].initializer.right.value
            IN IF l.t # "Number" \/ r.t # "Number" \/ (operator = "SLASH" /\ r.n = 0)
               THEN Failed /\ result.err.token.type_ = operator
               ELSE /\ result.ok
                    /\ Global("r").t = "Number"
                    /\ CASE operator = "MINUS" -> Global("r").n = l.n - r.n
                         [] operator = "STAR" -> Global("r").n = l.n * r.n
                         [] OTHER -> Global("r").n * r.n = l.n

\* C23's case: 2 / 0 has ended in the runtime error
C23_Witness ==
    /\ Computed("SLASH")
    /\ source[2].initializer.left.value = Number(2)
    /\ source[2].initializer.right.value = Number(0)
    /\ Failed /\ result.err.message = "Division by zero."

----------------------------------------------------------------------------
(* Closures and frames *)

\* what a program of SharingPrograms prints if every read sees the
\* assignments made before it: the count of calls of inc so far
RECURSIVE Counted(_, _, _)
Counted(calls, i, n) ==
    CASE i > Len(calls) -> <<ToString(n), "end">>
      [] calls[i] = "inc" -> Counted(calls, i + 1, n + 1)
      [] OTHER -> <<ToString(n)>> \o Counted(calls, i + 1, n)
Shares(calls) ==
    source \in {SharingInBlock(calls), SharingAtTop(calls), SharingInFunction(calls)}

\* C24: two closures that captured the same environment see each other's
\* assignments: after a call of one assigns the captured variable, a later
\* read through the other, or in the declaring scope, returns the assigned
\* value, over any number of calls.
C24_SharedEnvironment ==
    \A calls \in CallSequences :
        pc = "done" /\ Shares(calls) => result.ok /\ out = Counted(calls, 1, 0)

\* C24's case: inc(); get(); inc(); in a block has printed 1, and 2 in the
\* declaring scope
C24_Witness ==
    /\ pc = "done" /\ source = SharingInBlock(<<"inc", "get", "inc">>)
    /\ out = <<"1", "2", "end">>

\* what a program of ShadowPrograms prints if a declaration touches only the
\* current frame
Shadowed ==
    CASE source = Shadowing(Str("inner")) -> <<"inner", "outer">>
      [] source = Shadowing(None) -> <<"nil", "outer">>
      [] source = RedeclaringUnder -> <<"2", "outer">>
      [] OTHER -> <<"2">>

\* C25: define changes the local frame only: the name is bound to the value
\* there, over an earlier binding of it if there is one, and every other
\* binding and every other frame stay as they were, so a variable declared in
\* a block under the name of an outer one is read in the block as the inner
\* value and the outer one has its value again after the block.
C25_DefineIsLocal ==
    /\ \A i \in Events :
          Is(i, "define") =>
              LET d == trace[i] IN
              /\ DOMAIN d.after = DOMAIN d.before
              /\ \A frame \in DOMAIN d.before \ {d.self} : d.after[frame] = d.before[frame]
              /\ d.after[d.self].enclosing = d.before[d.self].enclosing
              /\ DOMAIN d.after[d.self].values = DOMAIN d.before[d.self].values \cup {d.name}
              /\ d.after[d.self].values[d.name] = d.value
              /\ \A n \in DOMAIN d.before[d.self].values \ {d.name} :
                    d.after[d.self].values[n] = d.before[d.self].values[n]
    /\ pc = "done" /\ source \in ShadowPrograms => result.ok /\ out = Shadowed

\* C25's case: the block has declared its own x over the outer one, and the
\* outer one was printed after the block
C25_Witness ==
    /\ pc = "done" /\ source = Shadowing(Str("inner")) /\ out = <<"inner", "outer">>
    /\ \E i \in Events :
          /\ Is(i, "define") /\ trace[i].self # 1
          /\ trace[i].name \in DOMAIN trace[i].before[1].values

\* C30: a for statement makes one loop environment, which holds the
\* initializer's variable and serves every iteration: the closures declared
\* in the body in different iterations capture the same binding of the loop
\* variable, and after the loop each reads its final value.
C30_OneLoopEnvironment ==
    pc = "done" /\ source \in LoopPrograms =>
        LET loop_envs == {frame \in DOMAIN envs : "i" \in DOMAIN envs[frame].values}
        IN /\ result.ok
           /\ Cardinality(loop_envs) = 1
           /\ \A name \in {"a", "b"} :
                 /\ Global(name).t = "Callable"
                 /\ envs[Global(name).f.closure].enclosing \in loop_envs
           /\ out = IF source = Capturing(<<>>) THEN <<"2", "2", "end">>
                    ELSE <<"0", "1", "2", "2", "end">>

\* C30's case: the two closures of two iterations have both printed 2
C30_Witness ==
    /\ pc = "done" /\ source = Capturing(<<>>)
    /\ Global("a").f.closure # Global("b").f.closure
    /\ out = <<"2", "2", "end">>

====
